---- MODULE Spec2Model ----
(***************************************************************************)
(* Anachron narrative state engine: the travel-window machine              *)
(* (time_machine.py), the fulfillment anchors (fulfillment.py), the        *)
(* choice-intent resolver (choice_intent.py), the aggregate GameState      *)
(* (game_state.py) and the per-turn coordinator GameAPI (game_api.py).     *)
(*                                                                         *)
(* Every Python method is an operator from the object's value to its new   *)
(* value; the actions apply them.  Three specifications share the state:   *)
(*   SpecWindow  drives GameState's window operations directly,            *)
(*   SpecAnchor  drives FulfillmentState directly,                         *)
(*   Spec        drives one session through the GameAPI handlers.          *)
(*                                                                         *)
(* Probabilities are percentages (0.30 is 30) and random.random() is a     *)
(* roll in 0..99.  Optional objects are sequences of length 0 or 1,        *)
(* optional strings use the sentinel None.  Not modelled: the Inventory,   *)
(* the device display, conversation_history, timestamps and the player's   *)
(* name, mode and region, which none of the engine's decisions read.       *)
(***************************************************************************)
EXTENDS Integers, Sequences, FiniteSets, TLC

VARIABLES
    state,              \* GameAPI.state : GameState
    narrator,           \* GameAPI.narrator : None or a NarrativeEngine
    current_era,        \* GameAPI.current_era : era id or None
    emitted,            \* the messages the last handler yielded
    pending,            \* the handlers suspended in narrator.generate_streaming, oldest first
    op,                 \* the last operation, its inputs and its outcome
    calls_since_reset   \* advance_turn calls since the window counter was last reset

vars == <<state, narrator, current_era, emitted, pending, op, calls_since_reset>>

None == "None"

Max(a, b) == IF a >= b THEN a ELSE b
Min(a, b) == IF a <= b THEN a ELSE b
Abs(x) == IF x < 0 THEN -x ELSE x

(***************************************************************************)
(* Bounds of the model.                                                    *)
(***************************************************************************)
MaxTurns == 17          \* turns a SpecWindow run takes
MaxEras == 1            \* entries of era_history in a run
MaxHist == 3            \* adjust entries over the three anchors' histories in a SpecAnchor run
MaxTransitions == 1     \* era transitions in a SpecAnchor run
MaxAnchorTurns == 1     \* FulfillmentState.advance_turn calls in a SpecAnchor run

\* The deltas an <anchors> tag requests: any signed integer.  These reach both
\* clamps, every level of the ladder and the arrival threshold.
Deltas == {-120, -25, 15, 70, 120}

\* The era catalog (eras.py), by id.  select_random_era only reads the ids.
Eras == {"classical_athens", "viking_age"}

\* The eras SpecWindow enters: the window operations record the id and never
\* read it.
WindowEras == {"classical_athens"}

\* random.random() as a percentage: the values next to each threshold.
Rolls == {0, 29, 30, 49, 50, 74, 75, 99}

(***************************************************************************)
(* config.py                                                               *)
(***************************************************************************)
WINDOW_MIN_TURNS == 7
WINDOW_DURATION_TURNS == 3
WINDOW_PROBABILITIES == (7 :> 30) @@ (8 :> 50) @@ (9 :> 75) @@ (10 :> 100)
ARRIVAL_THRESHOLD == 70
MASTERY_THRESHOLD == 90
ANCHORS ==
    [a \in {"belonging", "legacy", "freedom"} |->
        [arrival_threshold |-> ARRIVAL_THRESHOLD, mastery_threshold |-> MASTERY_THRESHOLD]]
AnchorNames == <<"belonging", "legacy", "freedom">>

(***************************************************************************)
(* time_machine.py : TimeMachine                                           *)
(***************************************************************************)
TimeMachine ==
    [turns_since_last_window |-> 0,
     window_active |-> FALSE,
     window_turns_remaining |-> 0,
     eras_visited |-> <<>>,
     total_turns |-> 0,
     accumulated_probability |-> 0]

GUARANTEED_TURN == 10

\* A probability table that forgets the guarantee: turn 10 and later roll at 75.
current_probability_no_guarantee(current_turn) ==
    IF current_turn \in {7, 8, 9} THEN WINDOW_PROBABILITIES[current_turn] ELSE 75

\* advance_turn, "Get probability from table (guaranteed by turn 10)"
current_probability(current_turn) ==
    IF current_turn >= GUARANTEED_TURN
    THEN 100
    ELSE IF current_turn \in DOMAIN WINDOW_PROBABILITIES
         THEN WINDOW_PROBABILITIES[current_turn]
         ELSE 100

\* An eligibility test that is off by one: the roll starts a turn early.
not_yet_eligible_early(turns) == turns < WINDOW_MIN_TURNS - 1

\* advance_turn, "must be at least turn 7"
not_yet_eligible(turns) == turns < WINDOW_MIN_TURNS

\* An opening that grants one turn too many.
TimeMachine_open_window_long(tm) ==
    [tm EXCEPT !.window_active = TRUE,
               !.window_turns_remaining = WINDOW_DURATION_TURNS + 1]

TimeMachine_open_window(tm) ==
    [tm EXCEPT !.window_active = TRUE,
               !.window_turns_remaining = WINDOW_DURATION_TURNS]

TimeMachine_close_window(tm) ==
    [tm EXCEPT !.window_active = FALSE,
               !.window_turns_remaining = 0,
               !.turns_since_last_window = 0,
               !.accumulated_probability = 0]

\* A countdown that closes the window while one turn is still left.
countdown_over_early(window_turns_remaining) == window_turns_remaining <= 1

\* advance_turn, "Handle active window countdown"
countdown_over(window_turns_remaining) == window_turns_remaining <= 0

\* Returns the machine and the method's result (True if a window just opened).
TimeMachine_advance_turn(tm, roll) ==
    LET t1 == [tm EXCEPT !.total_turns = @ + 1,
                         !.turns_since_last_window = @ + 1]
    IN  IF t1.window_active
        THEN LET t2 == [t1 EXCEPT !.window_turns_remaining = @ - 1]
             IN  [tm |-> IF countdown_over(t2.window_turns_remaining)
                         THEN TimeMachine_close_window(t2)
                         ELSE t2,
                  result |-> FALSE]
        ELSE IF not_yet_eligible(t1.turns_since_last_window)
        THEN [tm |-> t1, result |-> FALSE]
        ELSE LET current_prob == current_probability(t1.turns_since_last_window)
                 t2 == [t1 EXCEPT !.accumulated_probability = current_prob]
             IN  IF roll < current_prob
                 THEN [tm |-> TimeMachine_open_window(t2), result |-> TRUE]
                 ELSE [tm |-> t2, result |-> FALSE]

TimeMachine_travel(tm, new_era_id) ==
    IF ~tm.window_active
    THEN tm
    ELSE [tm EXCEPT !.eras_visited = Append(@, new_era_id),
                    !.window_active = FALSE,
                    !.window_turns_remaining = 0,
                    !.turns_since_last_window = 0,
                    !.accumulated_probability = 0]

TimeMachine_choose_to_stay(tm) == TimeMachine_close_window(tm)

(***************************************************************************)
(* fulfillment.py : Anchor                                                 *)
(***************************************************************************)
Anchor == [value |-> 0, history |-> <<>>]

Anchor_level(a) ==
    IF a.value >= 90 THEN "mastery"
    ELSE IF a.value >= 80 THEN "arrived"
    ELSE IF a.value >= 60 THEN "strong"
    ELSE IF a.value >= 40 THEN "growing"
    ELSE IF a.value >= 20 THEN "emerging"
    ELSE "none"

Anchor_has_arrived(a, name) == a.value >= ANCHORS[name].arrival_threshold

Anchor_has_mastery(a, name) == a.value >= ANCHORS[name].mastery_threshold

\* An adjust that forgets the upper clamp.
clamp_no_upper(v) == Max(0, v)

\* adjust: max(0, min(100, value + delta))
clamp(v) == Max(0, Min(100, v))

\* An adjust that records the requested delta instead of the applied one.
recorded_delta_requested(old_value, new_value, delta) == delta

\* adjust: actual_delta = self.value - old_value
recorded_delta(old_value, new_value, delta) == new_value - old_value

Anchor_adjust(a, delta, turn, reason) ==
    LET old_value == a.value
        new_value == clamp(a.value + delta)
        actual_delta == recorded_delta(old_value, new_value, delta)
    IN  [value |-> new_value,
         history |-> IF actual_delta # 0
                     THEN Append(a.history, <<turn, reason, actual_delta>>)
                     ELSE a.history]

\* retention_rate is the fraction rate[1] / rate[2]; int() truncates, and on
\* 0..100 the float products and quotients equal the integer ones.
Anchor_reset_for_new_era(a, rate) ==
    LET new_value == (a.value * rate[1]) \div rate[2]
    IN  [value |-> new_value,
         history |-> Append(a.history,
                            <<-1, "era_transition",
                              new_value - ((new_value * rate[2]) \div rate[1])>>)]

(***************************************************************************)
(* fulfillment.py : FulfillmentState                                       *)
(***************************************************************************)
FulfillmentState ==
    [belonging |-> Anchor,
     legacy |-> Anchor,
     freedom |-> Anchor,
     current_turn |-> 0,
     last_belonging_level |-> "none",
     last_legacy_level |-> "none",
     last_freedom_level |-> "none"]

FulfillmentState_adjust(f, anchor_name, delta, reason) ==
    [f EXCEPT ![anchor_name] = Anchor_adjust(@, delta, f.current_turn, reason)]

FulfillmentState_advance_turn(f) == [f EXCEPT !.current_turn = @ + 1]

FulfillmentState_can_stay(f) ==
    \/ Anchor_has_arrived(f.belonging, "belonging")
    \/ Anchor_has_arrived(f.legacy, "legacy")
    \/ Anchor_has_arrived(f.freedom, "freedom")

\* anchors.sort(reverse=True) is stable: among equal values the first of
\* belonging, legacy, freedom stays first.
FulfillmentState_dominant_anchor(f) ==
    LET first == CHOOSE i \in 1..3 :
                    /\ \A j \in 1..3 : f[AnchorNames[j]].value <= f[AnchorNames[i]].value
                    /\ \A j \in 1..(i - 1) : f[AnchorNames[j]].value < f[AnchorNames[i]].value
    IN  IF f[AnchorNames[first]].value > 0 THEN AnchorNames[first] ELSE None

FulfillmentState_arrival_anchors(f) ==
    SelectSeq(AnchorNames, LAMBDA n : Anchor_has_arrived(f[n], n))

FulfillmentState_initialize_milestone_tracking(f) ==
    [f EXCEPT !.last_belonging_level = Anchor_level(f.belonging),
              !.last_legacy_level = Anchor_level(f.legacy),
              !.last_freedom_level = Anchor_level(f.freedom)]

\* A transition that leaves reset_for_new_era at its default rate, 0.3.
BELONGING_RETENTION_default == <<3, 10>>

BELONGING_RETENTION == <<1, 5>>     \* retention_rate=0.2
LEGACY_RETENTION == <<1, 2>>        \* retention_rate=0.5
FREEDOM_RETENTION == <<3, 5>>       \* retention_rate=0.6

FulfillmentState_transition_to_new_era(f) ==
    LET f1 == [f EXCEPT
                 !.belonging = Anchor_reset_for_new_era(@, BELONGING_RETENTION),
                 !.legacy = Anchor_reset_for_new_era(@, LEGACY_RETENTION),
                 !.freedom = Anchor_reset_for_new_era(@, FREEDOM_RETENTION)]
    IN  [f1 EXCEPT !.last_belonging_level = Anchor_level(f1.belonging),
                   !.last_legacy_level = Anchor_level(f1.legacy),
                   !.last_freedom_level = Anchor_level(f1.freedom)]

FulfillmentState_get_ending_type(f) ==
    LET arrived == FulfillmentState_arrival_anchors(f)
    IN  IF Len(arrived) = 3 THEN "complete"
        ELSE IF Len(arrived) = 2 THEN "balanced"
        ELSE IF Len(arrived) = 1 THEN arrived[1]
        ELSE "searching"

level_order == <<"none", "emerging", "growing", "strong", "arrived", "mastery">>

level_index(level) == CHOOSE i \in 1..Len(level_order) : level_order[i] = level

\* A comparison that takes any change of level for an increase.
FulfillmentState_level_changed(old_level, new_level) ==
    level_index(new_level) # level_index(old_level)

FulfillmentState_level_increased(old_level, new_level) ==
    level_index(new_level) > level_index(old_level)

\* A check that reports the crossing and forgets to record the levels.
FulfillmentState_check_milestone_crossed_keeps_levels(f) ==
    LET last == [belonging |-> f.last_belonging_level,
                 legacy |-> f.last_legacy_level,
                 freedom |-> f.last_freedom_level]
        crossed == SelectSeq(AnchorNames,
                     LAMBDA n : FulfillmentState_level_increased(last[n], Anchor_level(f[n])))
    IN  [f |-> f,
         milestone |-> IF crossed = <<>>
                       THEN <<>>
                       ELSE <<[anchor |-> crossed[1],
                               old_level |-> last[crossed[1]],
                               new_level |-> Anchor_level(f[crossed[1]])]>>]

\* Returns the state with the last-known levels updated, and the milestone
\* reported (a sequence of length 0 or 1).  The sort by new level is stable and
\* descending, so among equal new levels the first anchor in scan order wins.
FulfillmentState_check_milestone_crossed(f) ==
    LET last == [belonging |-> f.last_belonging_level,
                 legacy |-> f.last_legacy_level,
                 freedom |-> f.last_freedom_level]
        crossed == SelectSeq(AnchorNames,
                     LAMBDA n : FulfillmentState_level_increased(last[n], Anchor_level(f[n])))
        best == CHOOSE i \in 1..Len(crossed) :
                    /\ \A j \in 1..Len(crossed) :
                          level_index(Anchor_level(f[crossed[j]]))
                              <= level_index(Anchor_level(f[crossed[i]]))
                    /\ \A j \in 1..(i - 1) :
                          level_index(Anchor_level(f[crossed[j]]))
                              < level_index(Anchor_level(f[crossed[i]]))
    IN  [f |-> [f EXCEPT !.last_belonging_level = Anchor_level(f.belonging),
                         !.last_legacy_level = Anchor_level(f.legacy),
                         !.last_freedom_level = Anchor_level(f.freedom)],
         milestone |-> IF crossed = <<>>
                       THEN <<>>
                       ELSE <<[anchor |-> crossed[best],
                               old_level |-> last[crossed[best]],
                               new_level |-> Anchor_level(f[crossed[best]])]>>]

(***************************************************************************)
(* game_state.py : EraState, GameState                                     *)
(***************************************************************************)
\* era_name, era_year and era_location are functions of the id; relationships
\* and situation are never written.
EraState(era_id) ==
    [era_id |-> era_id,
     turns_in_era |-> 0,
     character_name |-> None,
     events |-> <<>>]

EraState_advance_turn(e) == [e EXCEPT !.turns_in_era = @ + 1]

GameState ==
    [time_machine |-> TimeMachine,
     fulfillment |-> FulfillmentState,
     current_era |-> <<>>,
     phase |-> "setup",
     era_history |-> <<>>,
     ending_type |-> None,
     final_era |-> None,
     last_narrative |-> "",
     last_choices |-> <<>>,
     game_events |-> <<>>]

GameState_start_game(gs) == [gs EXCEPT !.phase = "setup"]

GameState_save_era_to_history(gs) ==
    IF gs.current_era = <<>>
    THEN gs
    ELSE [gs EXCEPT !.era_history =
            Append(@, [era_id |-> gs.current_era[1].era_id,
                       turns |-> gs.current_era[1].turns_in_era,
                       character_name |-> gs.current_era[1].character_name,
                       events |-> gs.current_era[1].events,
                       fulfillment_snapshot |->
                           [belonging |-> gs.fulfillment.belonging.value,
                            legacy |-> gs.fulfillment.legacy.value,
                            freedom |-> gs.fulfillment.freedom.value]])]

\* An era entry that forgets to reset the window machine.
reset_window_on_arrival_missing(tm) == tm

\* enter_era, "Close the window and reset turns when entering new era"
reset_window_on_arrival(tm) ==
    [tm EXCEPT !.window_active = FALSE,
               !.window_turns_remaining = 0,
               !.turns_since_last_window = 0,
               !.accumulated_probability = 0]

SeqContains(s, x) == \E i \in 1..Len(s) : s[i] = x

GameState_enter_era(gs, era) ==
    LET g1 == IF gs.current_era # <<>> THEN GameState_save_era_to_history(gs) ELSE gs
        g2 == [g1 EXCEPT !.current_era = <<EraState(era)>>]
        g3 == IF g2.era_history # <<>>
              THEN [g2 EXCEPT !.fulfillment = FulfillmentState_transition_to_new_era(@)]
              ELSE g2
        g4 == [g3 EXCEPT !.time_machine = reset_window_on_arrival(@)]
        g5 == IF ~SeqContains(g4.time_machine.eras_visited, era)
              THEN [g4 EXCEPT !.time_machine.eras_visited = Append(@, era)]
              ELSE g4
    IN  [g5 EXCEPT !.phase = "arrival"]

GameState_set_last_turn(gs, narrative, choices) ==
    [gs EXCEPT !.last_narrative = narrative, !.last_choices = choices]

\* event is the record of the keyword arguments, with its type.
GameState_log_event(gs, event) ==
    [gs EXCEPT !.game_events =
        Append(@, [type |-> event.type,
                   turn |-> gs.time_machine.total_turns,
                   era_id |-> IF gs.current_era # <<>>
                              THEN gs.current_era[1].era_id
                              ELSE None,
                   args |-> event.args])]

\* A last-turn test that fires a turn early, with two turns remaining.
on_last_window_turn_at_two(tm) == tm.window_active /\ tm.window_turns_remaining = 2

\* advance_turn, the test of the window_closing branch
on_last_window_turn(tm) == tm.window_active /\ tm.window_turns_remaining = 1

\* Returns the state and the events dict of the turn.
GameState_advance_turn(gs, roll) ==
    LET was_active == gs.time_machine.window_active
        g1 == IF gs.current_era # <<>>
              THEN [gs EXCEPT !.current_era[1] = EraState_advance_turn(@)]
              ELSE gs
        g2 == [g1 EXCEPT !.fulfillment = FulfillmentState_advance_turn(@)]
        r == TimeMachine_advance_turn(g2.time_machine, roll)
        g3 == [g2 EXCEPT !.time_machine = r.tm]
        window_opened == r.result
        window_closed == ~window_opened /\ was_active /\ ~g3.time_machine.window_active
        window_closing == /\ ~window_opened
                          /\ ~window_closed
                          /\ on_last_window_turn(g3.time_machine)
    IN  [state |-> IF window_opened THEN [g3 EXCEPT !.phase = "window_open"]
                   ELSE IF window_closed THEN [g3 EXCEPT !.phase = "living"]
                   ELSE g3,
         events |-> [window_opened |-> window_opened,
                     window_closing |-> window_closing,
                     window_closed |-> window_closed,
                     window_active_after_turn |-> g3.time_machine.window_active]]

GameState_choose_to_stay(gs, is_final) ==
    IF is_final
    THEN [gs EXCEPT !.phase = "staying",
                    !.ending_type = FulfillmentState_get_ending_type(gs.fulfillment),
                    !.final_era = IF gs.current_era # <<>>
                                  THEN gs.current_era[1].era_id
                                  ELSE None]
    ELSE [gs EXCEPT !.time_machine = TimeMachine_choose_to_stay(@),
                    !.phase = "living"]

GameState_choose_to_travel(gs) == [gs EXCEPT !.phase = "traveling"]

GameState_complete_travel(gs, new_era) ==
    GameState_enter_era(
        [gs EXCEPT !.time_machine = TimeMachine_travel(@, new_era)], new_era)

GameState_end_game(gs) ==
    [GameState_save_era_to_history(gs) EXCEPT !.phase = "ended"]

GameState_can_stay_meaningfully(gs) == FulfillmentState_can_stay(gs.fulfillment)

(***************************************************************************)
(* The record of the last operation.                                       *)
(***************************************************************************)
Op(name, choice, outcome) == [name |-> name, choice |-> choice, outcome |-> outcome]

WindowReport(events) ==
    IF events.window_opened THEN "opened"
    ELSE IF events.window_closed THEN "closed"
    ELSE IF events.window_closing THEN "closing"
    ELSE "none"

(***************************************************************************)
(* SpecWindow: the window operations of GameState, called in any order on  *)
(* a fresh GameState.                                                      *)
(***************************************************************************)
InitWindow ==
    /\ state = GameState
    /\ narrator = None
    /\ current_era = None
    /\ emitted = <<>>
    /\ pending = <<>>
    /\ op = Op("init", "", "")
    /\ calls_since_reset = 0

AdvanceTurn ==
    \E roll \in Rolls :
        /\ state.time_machine.total_turns < MaxTurns
        /\ LET r == GameState_advance_turn(state, roll)
           IN  /\ state' = r.state
               /\ op' = Op("advance_turn", "", WindowReport(r.events))
               /\ calls_since_reset' =
                      IF r.events.window_closed THEN 0 ELSE calls_since_reset + 1
        /\ UNCHANGED <<narrator, current_era, emitted, pending>>

EnterEra ==
    \E era \in WindowEras :
        /\ Len(state.era_history) < MaxEras
        /\ state' = GameState_enter_era(state, era)
        /\ op' = Op("enter_era", "",
                    IF state.time_machine.window_active THEN "mid_window" ELSE "")
        /\ calls_since_reset' = 0
        /\ UNCHANGED <<narrator, current_era, emitted, pending>>

CompleteTravel ==
    \E era \in WindowEras :
        /\ Len(state.era_history) < MaxEras
        /\ state' = GameState_complete_travel(state, era)
        /\ op' = Op("complete_travel", "", "")
        /\ calls_since_reset' = 0
        /\ UNCHANGED <<narrator, current_era, emitted, pending>>

ChooseToStay ==
    \E is_final \in BOOLEAN :
        /\ state' = GameState_choose_to_stay(state, is_final)
        /\ op' = Op("choose_to_stay", "", IF is_final THEN "final" ELSE "close")
        /\ calls_since_reset' = IF is_final THEN calls_since_reset ELSE 0
        /\ UNCHANGED <<narrator, current_era, emitted, pending>>

NextWindow ==
    \/ AdvanceTurn
    \/ EnterEra
    \/ CompleteTravel
    \/ ChooseToStay

SpecWindow == InitWindow /\ [][NextWindow]_vars

(***************************************************************************)
(* Claims about the window machine, checked under SpecWindow.              *)
(***************************************************************************)

\* C1: a window is guaranteed by turn 10.  An advance_turn call made with no
\* window active that brings turns_since_last_window to 10 or more opens the
\* window whatever the roll; so with no window active the counter, and the
\* number of advance_turn calls since the last reset, is at most 9.
C1_GuaranteedByTurn10 ==
    /\ [](~state.time_machine.window_active =>
            /\ state.time_machine.turns_since_last_window <= 9
            /\ calls_since_reset <= 9)
    /\ [][(/\ op'.name = "advance_turn"
           /\ ~state.time_machine.window_active
           /\ state.time_machine.turns_since_last_window + 1 >= 10)
          => (/\ state'.time_machine.window_active
              /\ state'.time_machine.window_turns_remaining = WINDOW_DURATION_TURNS
              /\ op'.outcome = "opened")]_vars

\* C1 witness: the tenth call since the reset opened the window on the worst roll.
C1_Witness ==
    /\ op.name = "advance_turn"
    /\ op.outcome = "opened"
    /\ state.time_machine.turns_since_last_window = 10
    /\ calls_since_reset = 10
    /\ state.time_machine.window_active

\* C2: a window never opens early.  The window goes from inactive to active
\* only in an advance_turn call that leaves turns_since_last_window at 7 or
\* more, and at least 7 advance_turn calls were made since the last reset of
\* the counter (fresh machine, era entry, travel, window close).
C2_NeverOpensEarly ==
    [][(~state.time_machine.window_active /\ state'.time_machine.window_active)
       => (/\ op'.name = "advance_turn"
           /\ state'.time_machine.turns_since_last_window >= WINDOW_MIN_TURNS
           /\ calls_since_reset' >= 7)]_vars

\* C2 witness: a window opened on the seventh call after an earlier reset.
C2_Witness ==
    /\ op.name = "advance_turn"
    /\ op.outcome = "opened"
    /\ calls_since_reset = 7
    /\ state.time_machine.turns_since_last_window = 7
    /\ state.time_machine.total_turns > 7

\* C3: the window is active exactly when turns remain, and the remaining
\* turns stay within 0..3.
C3_ActiveIffRemaining ==
    /\ state.time_machine.window_active <=> state.time_machine.window_turns_remaining > 0
    /\ state.time_machine.window_turns_remaining \in 0..3

\* C3 witness: a window on its last turn, in an era entered by travel.
C3_Witness ==
    /\ op.name = "advance_turn"
    /\ state.time_machine.window_active
    /\ state.time_machine.window_turns_remaining = 1
    /\ Len(state.era_history) = 1

\* C17: entering an era leaves the window closed with both counters zero,
\* whatever the window state before: after enter_era (called directly or by
\* complete_travel) window_active is false, window_turns_remaining is 0 and
\* turns_since_last_window is 0.
C17_ArrivalClosesWindow ==
    [][op'.name \in {"enter_era", "complete_travel"}
       => (/\ ~state'.time_machine.window_active
           /\ state'.time_machine.window_turns_remaining = 0
           /\ state'.time_machine.turns_since_last_window = 0
           /\ state'.phase = "arrival")]_vars

\* C17 witness: an era entered while a window was active, without travel.
C17_Witness ==
    /\ op = Op("enter_era", "", "mid_window")
    /\ ~state.time_machine.window_active
    /\ state.time_machine.window_turns_remaining = 0
    /\ state.time_machine.turns_since_last_window = 0
    /\ state.time_machine.total_turns >= WINDOW_MIN_TURNS

\* C18: a window lasts 3 turns.  The advance_turn call that opens it leaves 3
\* turns remaining; absent era entry, travel or stay, the next two advance_turn
\* calls leave it active with 2, then 1 turns remaining, and the third closes
\* it: window_active false, window_turns_remaining 0, turns_since_last_window 0.
C18_WindowLastsThreeTurns ==
    [][op'.name = "advance_turn"
       => LET tm == state.time_machine
              after == state'.time_machine
          IN  /\ (~tm.window_active /\ after.window_active)
                    => after.window_turns_remaining = 3
              /\ (tm.window_active /\ tm.window_turns_remaining \in {3, 2})
                    => (/\ after.window_active
                        /\ after.window_turns_remaining = tm.window_turns_remaining - 1)
              /\ (tm.window_active /\ tm.window_turns_remaining = 1)
                    => (/\ ~after.window_active
                        /\ after.window_turns_remaining = 0
                        /\ after.turns_since_last_window = 0)]_vars

\* C18 witness: the tenth call of a fresh machine closed a window by expiry;
\* the window opened on the seventh call, the earliest, and lasted calls 8, 9, 10.
C18_Witness ==
    /\ op = Op("advance_turn", "", "closed")
    /\ state.time_machine.total_turns = 10
    /\ state.era_history = <<>>
    /\ ~state.time_machine.window_active
    /\ state.time_machine.window_turns_remaining = 0
    /\ state.time_machine.turns_since_last_window = 0

Reported(events) ==
    {k \in {"window_opened", "window_closing", "window_closed"} : events[k]}

\* C19: each advance_turn call reports at most one of opened, closing and
\* closed: opened exactly when the call takes the window from inactive to
\* active, closing exactly when the window is active with one turn remaining
\* after the call, closed exactly when an active window expires in the call.
\* Over a window's life the calls report opened, none, closing, closed in
\* that order.
C19_OneReportPerTurn ==
    [][op'.name = "advance_turn"
       => LET tm == state.time_machine
              after == state'.time_machine
          IN  /\ \A roll \in Rolls :
                    LET r == GameState_advance_turn(state, roll)
                    IN  r.state = state'
                          => (/\ Cardinality(Reported(r.events)) <= 1
                              /\ r.events.window_opened <=> op'.outcome = "opened"
                              /\ r.events.window_closing <=> op'.outcome = "closing"
                              /\ r.events.window_closed <=> op'.outcome = "closed")
              /\ op'.outcome = "opened" <=> (~tm.window_active /\ after.window_active)
              /\ op'.outcome = "closing"
                    <=> (after.window_active /\ after.window_turns_remaining = 1)
              /\ op'.outcome = "closed" <=> (tm.window_active /\ ~after.window_active)
              /\ op = Op("advance_turn", "", "opened") => op'.outcome = "none"
              /\ (op = Op("advance_turn", "", "none") /\ tm.window_active)
                    => op'.outcome = "closing"
              /\ op = Op("advance_turn", "", "closing") => op'.outcome = "closed"]_vars

\* C19 witness: the tenth turn of an era entered after another one reported
\* closed; turns 7, 8 and 9 of the era reported opened, none and closing.
C19_Witness ==
    /\ op = Op("advance_turn", "", "closed")
    /\ Len(state.era_history) = 1
    /\ state.current_era # <<>>
    /\ state.current_era[1].turns_in_era = 10
    /\ state.phase = "living"

\* C20: turns_since_last_window is frozen while a window is active.  An
\* advance_turn call made with the window active that does not close it
\* leaves turns_since_last_window unchanged.
C20_FrozenWhileActive ==
    [][(/\ op'.name = "advance_turn"
        /\ state.time_machine.window_active
        /\ state'.time_machine.window_active)
       => state'.time_machine.turns_since_last_window
              = state.time_machine.turns_since_last_window]_vars

(***************************************************************************)
(* SpecAnchor: the operations of FulfillmentState, called in any order on  *)
(* a fresh FulfillmentState.                                               *)
(***************************************************************************)
RECURSIVE SumDeltas(_)
SumDeltas(history) ==
    IF history = <<>> THEN 0 ELSE history[1][3] + SumDeltas(Tail(history))

AdjustEntries(a) == Len(SelectSeq(a.history, LAMBDA h : h[2] # "era_transition"))

TransitionEntries(a) == Len(SelectSeq(a.history, LAMBDA h : h[2] = "era_transition"))

InitAnchor ==
    /\ state = GameState
    /\ narrator = None
    /\ current_era = None
    /\ emitted = <<>>
    /\ pending = <<>>
    /\ op = Op("init", "", "")
    /\ calls_since_reset = 0

Adjust ==
    \E anchor_name \in {"belonging", "legacy", "freedom"}, delta \in Deltas :
        /\ AdjustEntries(state.fulfillment.belonging)
             + AdjustEntries(state.fulfillment.legacy)
             + AdjustEntries(state.fulfillment.freedom) < MaxHist
        /\ state' = [state EXCEPT !.fulfillment =
                         FulfillmentState_adjust(@, anchor_name, delta, "choice")]
        /\ op' = Op("adjust", anchor_name,
                     IF state'.fulfillment[anchor_name].value
                          = state.fulfillment[anchor_name].value + delta
                     THEN "applied" ELSE "clamped")
        /\ UNCHANGED <<narrator, current_era, emitted, pending, calls_since_reset>>

FulfillmentAdvanceTurn ==
    /\ state.fulfillment.current_turn < MaxAnchorTurns
    /\ state' = [state EXCEPT !.fulfillment = FulfillmentState_advance_turn(@)]
    /\ op' = Op("advance_turn", "", "")
    /\ UNCHANGED <<narrator, current_era, emitted, pending, calls_since_reset>>

TransitionToNewEra ==
    /\ TransitionEntries(state.fulfillment.belonging) < MaxTransitions
    /\ state' = [state EXCEPT !.fulfillment = FulfillmentState_transition_to_new_era(@)]
    /\ op' = Op("transition_to_new_era", "", "")
    /\ UNCHANGED <<narrator, current_era, emitted, pending, calls_since_reset>>

NextAnchor ==
    \/ Adjust
    \/ FulfillmentAdvanceTurn
    \/ TransitionToNewEra

SpecAnchor == InitAnchor /\ [][NextAnchor]_vars

(***************************************************************************)
(* Claims about the anchors, checked under SpecAnchor.                     *)
(***************************************************************************)

\* C4: every anchor value is an integer in 0..100 in every reachable state,
\* whatever signed deltas are adjusted and however era transitions interleave.
C4_AnchorsInRange ==
    \A n \in {"belonging", "legacy", "freedom"} : state.fulfillment[n].value \in 0..100

\* C4 witness: an adjust hit a clamp after an era transition.
C4_Witness ==
    /\ op.name = "adjust"
    /\ op.outcome = "clamped"
    /\ TransitionEntries(state.fulfillment.belonging) = 1
    /\ \E n \in {"belonging", "legacy", "freedom"} : state.fulfillment[n].value = 100

\* C5: on an anchor that started at 0 and saw only adjust calls, every history
\* entry holds the delta applied after clamping, so the recorded deltas sum to
\* the anchor's value.
C5_HistorySumsToValue ==
    \A n \in {"belonging", "legacy", "freedom"} :
        TransitionEntries(state.fulfillment[n]) = 0
        => SumDeltas(state.fulfillment[n].history) = state.fulfillment[n].value

\* C5 witness: a clamped adjust is the last of several recorded on an anchor.
C5_Witness ==
    /\ op.name = "adjust"
    /\ op.outcome = "clamped"
    /\ TransitionEntries(state.fulfillment[op.choice]) = 0
    /\ Len(state.fulfillment[op.choice].history) >= 2
    /\ state.fulfillment[op.choice].value = 100

\* C33: an era transition records the change it made (the value after the
\* decay minus the value before it), so after any mix of adjust calls and era
\* transitions the recorded deltas of every anchor sum to its value.
C33_HistorySumsAcrossTransitions ==
    \A n \in {"belonging", "legacy", "freedom"} :
        SumDeltas(state.fulfillment[n].history) = state.fulfillment[n].value

(***************************************************************************)
(* SpecValues: the value-dependent operations of FulfillmentState, called  *)
(* on a FulfillmentState whose anchors were each raised by one adjust call *)
(* of the first turn.  One anchor takes every value of 0..100, the other   *)
(* two the values of LadderValues.                                         *)
(***************************************************************************)
LadderValues == {0, 20, 70, 80, 100}

Raised(value) == Anchor_adjust(Anchor, value, 0, "choice")

InitValues ==
    /\ \E n \in {"belonging", "legacy", "freedom"}, v \in 0..100 :
         \E others \in [{"belonging", "legacy", "freedom"} \ {n} -> LadderValues] :
            state = [GameState EXCEPT
                       !.fulfillment =
                           [a \in DOMAIN FulfillmentState |->
                              IF a = n THEN Raised(v)
                              ELSE IF a \in DOMAIN others THEN Raised(others[a])
                              ELSE FulfillmentState[a]]]
    /\ narrator = None
    /\ current_era = None
    /\ emitted = <<>>
    /\ pending = <<>>
    /\ op = Op("init", "", "")
    /\ calls_since_reset = 0

\* The two properties read from the state; op holds the value returned.
CanStay ==
    /\ op' = Op("can_stay", "",
                IF FulfillmentState_can_stay(state.fulfillment) THEN "True" ELSE "False")
    /\ UNCHANGED <<state, narrator, current_era, emitted, pending, calls_since_reset>>

DominantAnchor ==
    /\ op' = Op("dominant_anchor", "", FulfillmentState_dominant_anchor(state.fulfillment))
    /\ UNCHANGED <<state, narrator, current_era, emitted, pending, calls_since_reset>>

NextValues ==
    \/ TransitionToNewEra
    \/ CanStay
    \/ DominantAnchor

SpecValues == InitValues /\ [][NextValues]_vars

(***************************************************************************)
(* Claims about the anchor values, checked under SpecValues.               *)
(***************************************************************************)

\* The integer floor of a value times a rate given in hundredths.
FloorOfRate(value, hundredths) ==
    CHOOSE k \in 0..100 : k * 100 <= value * hundredths /\ value * hundredths < (k + 1) * 100

\* C21: an era transition takes each anchor to the integer floor of its old
\* value times its rate, Belonging 0.20, Legacy 0.50, Freedom 0.60, for every
\* old value in 0..100.
C21_RetentionIsFloorOfRate ==
    [][op'.name = "transition_to_new_era"
       => /\ state'.fulfillment.belonging.value
                = FloorOfRate(state.fulfillment.belonging.value, 20)
          /\ state'.fulfillment.legacy.value
                = FloorOfRate(state.fulfillment.legacy.value, 50)
          /\ state'.fulfillment.freedom.value
                = FloorOfRate(state.fulfillment.freedom.value, 60)]_vars

\* C21 witness: a transition took Belonging from 77 to 15.
C21_Witness ==
    /\ op.name = "transition_to_new_era"
    /\ state.fulfillment.belonging.history[1] = <<0, "choice", 77>>
    /\ state.fulfillment.belonging.value = 15
    /\ state.fulfillment.legacy.value = 40
    /\ state.fulfillment.freedom.value = 42

\* C23: eligibility to end the game by staying coincides with the arrived
\* rung of the level ladder: can_stay is true if and only if the level of at
\* least one anchor is arrived or mastery.
C23_CanStayIffArrivedLevel ==
    op.name = "can_stay"
    => (op.outcome = "True"
          <=> \E a \in {"belonging", "legacy", "freedom"} :
                 Anchor_level(state.fulfillment[a]) \in {"arrived", "mastery"})

\* The anchors whose value is strictly greater than both others.
StrictlyGreatest(f) ==
    {a \in {"belonging", "legacy", "freedom"} :
        \A b \in {"belonging", "legacy", "freedom"} \ {a} : f[b].value < f[a].value}

\* C24: the dominant anchor is the anchor with the strictly greatest value;
\* when two or more anchors tie for the greatest value, all three at 0
\* included, the dominant anchor is none.
C24_DominantIsStrictlyGreatest ==
    op.name = "dominant_anchor"
    => IF StrictlyGreatest(state.fulfillment) = {}
       THEN op.outcome = None
       ELSE op.outcome \in StrictlyGreatest(state.fulfillment)

(***************************************************************************)
(* SpecMilestone: adjust, check_milestone_crossed and                      *)
(* initialize_milestone_tracking, called in any order on a fresh           *)
(* FulfillmentState.  emitted holds the milestones returned since the last *)
(* initialize_milestone_tracking call, calls_since_reset the number of     *)
(* check_milestone_crossed calls made.                                     *)
(***************************************************************************)
MaxChecks == 3

CheckMilestoneCrossed ==
    /\ calls_since_reset < MaxChecks
    /\ LET crossed == FulfillmentState_check_milestone_crossed(state.fulfillment)
       IN  /\ state' = [state EXCEPT !.fulfillment = crossed.f]
           /\ emitted' = emitted \o crossed.milestone
           /\ op' = IF crossed.milestone = <<>>
                    THEN Op("check_milestone_crossed", None, None)
                    ELSE Op("check_milestone_crossed",
                            crossed.milestone[1].anchor, crossed.milestone[1].new_level)
    /\ calls_since_reset' = calls_since_reset + 1
    /\ UNCHANGED <<narrator, current_era, pending>>

InitializeMilestoneTracking ==
    /\ state' = [state EXCEPT !.fulfillment =
                     FulfillmentState_initialize_milestone_tracking(@)]
    /\ emitted' = <<>>
    /\ op' = Op("initialize_milestone_tracking", "", "")
    /\ UNCHANGED <<narrator, current_era, pending, calls_since_reset>>

NextMilestone ==
    \/ Adjust
    \/ CheckMilestoneCrossed
    \/ InitializeMilestoneTracking

SpecMilestone == InitAnchor /\ [][NextMilestone]_vars

(***************************************************************************)
(* Claims about the milestones, checked under SpecMilestone.               *)
(***************************************************************************)
LastLevels(f) ==
    [belonging |-> f.last_belonging_level,
     legacy |-> f.last_legacy_level,
     freedom |-> f.last_freedom_level]

Rung(level) ==
    CASE level = "none" -> 0
      [] level = "emerging" -> 1
      [] level = "growing" -> 2
      [] level = "strong" -> 3
      [] level = "arrived" -> 4
      [] level = "mastery" -> 5

\* The anchors whose level is above the level recorded for them.
Rose(f) ==
    {a \in {"belonging", "legacy", "freedom"} :
        Rung(Anchor_level(f[a])) > Rung(LastLevels(f)[a])}

\* C25: check_milestone_crossed reports a milestone only for an anchor whose
\* level is strictly above the level recorded at the previous check or
\* initialize, never for a decrease or an unchanged level; when several
\* anchors rose it returns one with the highest new level, and it returns
\* none when no anchor rose.
C25_MilestoneOnlyOnRise ==
    [][op'.name = "check_milestone_crossed"
       => LET f == state.fulfillment
          IN  IF Rose(f) = {}
              THEN op'.choice = None /\ emitted' = emitted
              ELSE /\ op'.choice \in Rose(f)
                   /\ op'.outcome = Anchor_level(f[op'.choice])
                   /\ \A a \in Rose(f) :
                         Rung(Anchor_level(f[a])) <= Rung(op'.outcome)
                   /\ Len(emitted') = Len(emitted) + 1
                   /\ emitted'[Len(emitted')].old_level = LastLevels(f)[op'.choice]]_vars

\* C25 witness: the first check after two anchors rose, belonging to emerging
\* and legacy to strong, reported legacy's level only.
C25_Witness ==
    /\ op = Op("check_milestone_crossed", "legacy", "strong")
    /\ calls_since_reset = 1
    /\ Len(emitted) = 1
    /\ Anchor_level(state.fulfillment.belonging) = "emerging"
    /\ state.fulfillment.freedom.value = 0

\* C26: between two initialize_milestone_tracking calls, a threshold (an
\* anchor and a level) is reported at most once, whatever the adjustments and
\* checks, an anchor that drops below the level and rises to it again included.
C26_ThresholdReportedOnce ==
    \A i, j \in DOMAIN emitted :
        (emitted[i].anchor = emitted[j].anchor
           /\ emitted[i].new_level = emitted[j].new_level) => i = j

(***************************************************************************)
(* Text.  A text is a sequence of one-character strings.  A pattern is a   *)
(* sequence of characters and of the tokens ANY (any characters), WS (any *)
(* whitespace) and NOTGT (one or more characters other than >); re_search  *)
(* is re.search on one line of text.                                       *)
(***************************************************************************)
Whitespace == {" "}

RECURSIVE re_match_at(_, _, _, _)
re_match_at(pattern, i, text, j) ==
    IF i > Len(pattern) THEN TRUE
    ELSE IF pattern[i] = "ANY"
         THEN \E k \in j..(Len(text) + 1) : re_match_at(pattern, i + 1, text, k)
    ELSE IF pattern[i] = "WS"
         THEN \E k \in j..(Len(text) + 1) :
                /\ \A n \in j..(k - 1) : text[n] \in Whitespace
                /\ re_match_at(pattern, i + 1, text, k)
    ELSE IF pattern[i] = "NOTGT"
         THEN \E k \in (j + 1)..(Len(text) + 1) :
                /\ \A n \in j..(k - 1) : text[n] # ">"
                /\ re_match_at(pattern, i + 1, text, k)
    ELSE /\ j <= Len(text)
         /\ text[j] = pattern[i]
         /\ re_match_at(pattern, i + 1, text, j + 1)

re_search(pattern, text) ==
    \E j \in 1..(Len(text) + 1) : re_match_at(pattern, 1, text, j)

LOWER ==
    ("A" :> "a") @@ ("B" :> "b") @@ ("C" :> "c") @@ ("D" :> "d") @@
    ("E" :> "e") @@ ("F" :> "f") @@ ("G" :> "g") @@ ("H" :> "h") @@
    ("I" :> "i") @@ ("J" :> "j") @@ ("K" :> "k") @@ ("L" :> "l") @@
    ("M" :> "m") @@ ("N" :> "n") @@ ("O" :> "o") @@ ("P" :> "p") @@
    ("Q" :> "q") @@ ("R" :> "r") @@ ("S" :> "s") @@ ("T" :> "t") @@
    ("U" :> "u") @@ ("V" :> "v") @@ ("W" :> "w") @@ ("X" :> "x") @@
    ("Y" :> "y") @@ ("Z" :> "z")

UPPER ==
    ("a" :> "A") @@ ("b" :> "B") @@ ("c" :> "C") @@ ("d" :> "D") @@
    ("e" :> "E") @@ ("f" :> "F") @@ ("g" :> "G") @@ ("h" :> "H") @@
    ("i" :> "I") @@ ("j" :> "J") @@ ("k" :> "K") @@ ("l" :> "L") @@
    ("m" :> "M") @@ ("n" :> "N") @@ ("o" :> "O") @@ ("p" :> "P") @@
    ("q" :> "Q") @@ ("r" :> "R") @@ ("s" :> "S") @@ ("t" :> "T") @@
    ("u" :> "U") @@ ("v" :> "V") @@ ("w" :> "W") @@ ("x" :> "X") @@
    ("y" :> "Y") @@ ("z" :> "Z")

\* str.lower() and str.upper() of one character (also of a one-letter id).
char_lower(c) == IF c \in DOMAIN LOWER THEN LOWER[c] ELSE c

char_upper(c) == IF c \in DOMAIN UPPER THEN UPPER[c] ELSE c

lower(text) == [i \in 1..Len(text) |-> char_lower(text[i])]

\* re.sub(pattern + ".*$", "", text): the text before the leftmost match.
\* With ignorecase the (lower-case) pattern is matched on the lowered text.
re_sub_to_end(pattern, ignorecase, text) ==
    LET subject == IF ignorecase THEN lower(text) ELSE text
    IN  IF re_search(pattern, subject)
        THEN SubSeq(text, 1,
                    (CHOOSE j \in 1..(Len(subject) + 1) :
                        /\ re_match_at(pattern, 1, subject, j)
                        /\ \A k \in 1..(j - 1) : ~re_match_at(pattern, 1, subject, k)) - 1)
        ELSE text

(***************************************************************************)
(* choice_intent.py                                                        *)
(***************************************************************************)
LEAVE_PATTERNS ==
    <<<<"a", "c", "t", "i", "v", "a", "t", "e", "ANY", "t", "i", "m", "e", "WS", "m", "a", "c", "h", "i", "n", "e">>,
     <<"a", "c", "t", "i", "v", "a", "t", "e", "ANY", "d", "e", "v", "i", "c", "e">>,
     <<"u", "s", "e", "ANY", "t", "i", "m", "e", "WS", "m", "a", "c", "h", "i", "n", "e">>,
     <<"l", "e", "a", "v", "e", "ANY", "e", "r", "a", "ANY", "b", "e", "h", "i", "n", "d">>,
     <<"l", "e", "a", "v", "e", " ", "t", "h", "i", "s", " ", "e", "r", "a">>,
     <<"t", "r", "a", "v", "e", "l", "ANY", "n", "e", "w", " ", "e", "r", "a">>,
     <<"p", "r", "e", "s", "s", "ANY", "d", "e", "v", "i", "c", "e">>,
     <<"t", "i", "m", "e", " ", "t", "o", " ", "l", "e", "a", "v", "e">>,
     <<"d", "e", "p", "a", "r", "t", "ANY", "e", "r", "a">>>>

STAY_FOREVER_PATTERNS ==
    <<<<"s", "t", "a", "y", "ANY", "f", "o", "r", "e", "v", "e", "r">>,
     <<"s", "t", "a", "y", " ", "h", "e", "r", "e", " ", "f", "o", "r", "e", "v", "e", "r">>,
     <<"t", "h", "i", "s", " ", "i", "s", "ANY", "h", "o", "m", "e", " ", "n", "o", "w">>,
     <<"t", "h", "i", "s", " ", "i", "s", " ", "m", "y", " ", "h", "o", "m", "e">>,
     <<"m", "y", " ", "h", "o", "m", "e", " ", "n", "o", "w">>,
     <<"r", "e", "m", "a", "i", "n", "ANY", "p", "e", "r", "m", "a", "n", "e", "n", "t", "l", "y">>,
     <<"n", "e", "v", "e", "r", " ", "l", "e", "a", "v", "e">>,
     <<"c", "h", "o", "o", "s", "e", " ", "t", "o", " ", "s", "t", "a", "y", "ANY", "f", "o", "r", "e", "v", "e", "r">>,
     <<"i", " ", "c", "h", "o", "o", "s", "e", " ", "t", "o", " ", "s", "t", "a", "y">>>>

\* The choice texts the narrator writes in this model: a plain one, one that
\* matches a leave pattern, one that matches a stay-forever pattern, one that
\* matches both lists, one under four characters, and two that are under four
\* characters once their tail is trimmed.
TEXT_PRESS_FORWARD == <<"P", "r", "e", "s", "s", " ", "f", "o", "r", "w", "a", "r", "d">>
TEXT_LEAVE == <<"L", "e", "a", "v", "e", " ", "t", "h", "i", "s", " ", "e", "r", "a", " ", "b", "e", "h", "i", "n", "d">>
TEXT_STAY == <<"S", "t", "a", "y", " ", "h", "e", "r", "e", " ", "f", "o", "r", "e", "v", "e", "r">>
TEXT_NEVER_LEAVE == <<"N", "e", "v", "e", "r", " ", "l", "e", "a", "v", "e", " ", "t", "h", "i", "s", " ", "e", "r", "a">>
TEXT_SHORT == <<"G", "o">>
TEXT_TAGGED == <<"G", "o", " ", "<", "e", "n", "d", ">">>
TEXT_SCORED == <<"G", "o", " ", "S", "C", "O", "R", "E", "S", ":", " ", "1">>

TRAILING_TAG == <<"WS", "<", "NOTGT", ">">>
TRAILING_SCORES == <<"WS", "s", "c", "o", "r", "e", "s", ":">>

LEAVE_ERA == "leave_era"
STAY_FOREVER == "stay_forever"
CONTINUE_STORY == "continue"

matches_any(patterns, text) ==
    \E n \in 1..Len(patterns) : re_search(patterns[n], text)

\* detect_choice_intent once the window is open and the text is not empty:
\* the leave patterns are tried first.
text_intent(choice_text) ==
    LET text_lower == lower(choice_text)
    IN  IF matches_any(LEAVE_PATTERNS, text_lower) THEN LEAVE_ERA
        ELSE IF matches_any(STAY_FOREVER_PATTERNS, text_lower) THEN STAY_FOREVER
        ELSE CONTINUE_STORY

(***************************************************************************)
(* The narrator's responses.  A response is the text the model returned;   *)
(* here it is read as its parts: the <anchors> tag (a sequence of length 0 *)
(* or 1 holding the three requested deltas), the <character_name>,         *)
(* <key_npc> and <wisdom> tags, and the lines of the text once the tags    *)
(* are stripped.  A line is the label between brackets at its start (None  *)
(* when the line does not start with one) and the text after it.           *)
(***************************************************************************)
Line(label, text) == [label |-> label, text |-> text]

Adjustments(b, l, f) == [belonging |-> b, legacy |-> l, freedom |-> f]

\* "" is the empty response; "story" offers a plain, a leave and a stay-forever
\* choice and names the character; "bond" requests a defining rise of
\* belonging, names an NPC and a wisdom path of Athens; "noise" has
\* choice-like lines none of which is usable.
RESPONSES ==
    ("" :> [anchors |-> <<>>,
            character_name |-> None,
            key_npcs |-> <<>>,
            wisdom |-> None,
            lines |-> <<>>])
    @@
    ("story" :> [anchors |-> <<>>,
                 character_name |-> "Thomas",
                 key_npcs |-> <<>>,
                 wisdom |-> None,
                 lines |-> <<Line("A", TEXT_PRESS_FORWARD),
                             Line("b", TEXT_LEAVE),
                             Line("C", TEXT_STAY)>>])
    @@
    ("bond" :> [anchors |-> <<Adjustments(75, 0, 0)>>,
                character_name |-> None,
                key_npcs |-> <<"Marta">>,
                wisdom |-> "leveraged_philosophy",
                lines |-> <<Line(None, TEXT_PRESS_FORWARD),
                            Line("A", TEXT_NEVER_LEAVE),
                            Line("C", TEXT_STAY),
                            Line("B", TEXT_PRESS_FORWARD),
                            Line("A", TEXT_LEAVE)>>])
    @@
    ("noise" :> [anchors |-> <<Adjustments(0, 0, 0)>>,
                 character_name |-> None,
                 key_npcs |-> <<>>,
                 wisdom |-> None,
                 lines |-> <<Line("D", TEXT_PRESS_FORWARD),
                             Line("A", TEXT_SHORT),
                             Line("B", TEXT_TAGGED),
                             Line("c", TEXT_SCORED),
                             Line(None, TEXT_STAY)>>])

ResponseNames == DOMAIN RESPONSES

\* eras.py: the ids of each era's wisdom_paths.
WISDOM_PATHS ==
    ("classical_athens" :> {"understood_metic_status", "leveraged_philosophy",
                            "respected_democracy_limits", "avoided_ostracism"})
    @@
    ("viking_age" :> {"understood_thing_law", "valued_reputation",
                      "understood_thrall_reality", "navigated_gift_economy"})

get_wisdom_path_by_id(era, wisdom_id) ==
    IF wisdom_id \in WISDOM_PATHS[era] THEN wisdom_id ELSE None

(***************************************************************************)
(* game_api.py : _parse_choices                                            *)
(***************************************************************************)
RECURSIVE strip(_)
strip(text) ==
    IF text = <<>> THEN text
    ELSE IF Head(text) \in Whitespace THEN strip(Tail(text))
    ELSE IF text[Len(text)] \in Whitespace THEN strip(SubSeq(text, 1, Len(text) - 1))
    ELSE text

MIN_CHOICE_LENGTH == 3

MAX_CHOICES == 3

\* ^\[([A-C])\]\s*(.+)$ with re.IGNORECASE, on a stripped line.
line_matches(line) ==
    /\ line.label # None
    /\ char_upper(line.label) \in {"A", "B", "C"}
    /\ strip(line.text) # <<>>

line_choice_text(line) ==
    re_sub_to_end(TRAILING_SCORES, TRUE,
                  re_sub_to_end(TRAILING_TAG, FALSE, strip(line.text)))

GameAPI_parse_choices(response) ==
    LET matched == SelectSeq(response.lines, line_matches)
        texts == [i \in 1..Len(matched) |->
                     [id |-> char_upper(matched[i].label),
                      text |-> line_choice_text(matched[i])]]
        choices == SelectSeq(texts, LAMBDA c : Len(c.text) > MIN_CHOICE_LENGTH)
    IN  SubSeq(choices, 1, Min(MAX_CHOICES, Len(choices)))

\* The choices of each response and the intent of each of their texts,
\* computed once.
PARSED_CHOICES == [name \in ResponseNames |-> GameAPI_parse_choices(RESPONSES[name])]

ChoiceTexts ==
    UNION {{PARSED_CHOICES[name][i].text : i \in DOMAIN PARSED_CHOICES[name]} :
              name \in ResponseNames}

TEXT_INTENT == [text \in ChoiceTexts |-> text_intent(text)]

(***************************************************************************)
(* choice_intent.py : the three functions                                  *)
(***************************************************************************)
\* An intent that is read from the text whether or not the window is open.
detect_choice_intent_any_window(choice_text, window_open) ==
    IF choice_text = <<>> THEN CONTINUE_STORY ELSE TEXT_INTENT[choice_text]

\* An intent that tries the stay-forever patterns before the leave patterns.
detect_choice_intent_stay_first(choice_text, window_open) ==
    IF ~window_open THEN CONTINUE_STORY
    ELSE IF choice_text = <<>> THEN CONTINUE_STORY
    ELSE IF matches_any(STAY_FOREVER_PATTERNS, lower(choice_text)) THEN STAY_FOREVER
    ELSE IF matches_any(LEAVE_PATTERNS, lower(choice_text)) THEN LEAVE_ERA
    ELSE CONTINUE_STORY

detect_choice_intent(choice_text, window_open) ==
    IF ~window_open THEN CONTINUE_STORY
    ELSE IF choice_text = <<>> THEN CONTINUE_STORY
    ELSE TEXT_INTENT[choice_text]

\* A filter that drops the stay-forever choices of an eligible player too.
\* A filter that removes nothing.
filter_choices_keeps_all(choices, window_open, can_stay_meaningfully) == choices

filter_choices_ignores_eligibility(choices, window_open, can_stay_meaningfully) ==
    IF ~window_open
    THEN choices
    ELSE SelectSeq(choices,
           LAMBDA choice : detect_choice_intent(choice.text, window_open) # STAY_FOREVER)

filter_choices(choices, window_open, can_stay_meaningfully) ==
    IF ~window_open
    THEN choices
    ELSE SelectSeq(choices,
           LAMBDA choice :
               ~(/\ detect_choice_intent(choice.text, window_open) = STAY_FOREVER
                 /\ ~can_stay_meaningfully))

\* Returns the intent, None when no stored choice has the id, and the text.
\* A lookup by the position the letter stands for: A first, B second, C third.
get_choice_intent_for_submission_by_position(choice_id, last_choices, window_open) ==
    LET position == IF char_upper(choice_id) = "A" THEN 1
                    ELSE IF char_upper(choice_id) = "B" THEN 2
                    ELSE IF char_upper(choice_id) = "C" THEN 3
                    ELSE 0
    IN  IF position \notin DOMAIN last_choices
        THEN [intent |-> None, choice_text |-> <<>>]
        ELSE [intent |-> detect_choice_intent(last_choices[position].text, window_open),
              choice_text |-> last_choices[position].text]

get_choice_intent_for_submission(choice_id, last_choices, window_open) ==
    LET found == {i \in 1..Len(last_choices) :
                     char_upper(last_choices[i].id) = char_upper(choice_id)}
    IN  IF found = {}
        THEN [intent |-> None, choice_text |-> <<>>]
        ELSE LET first == CHOOSE i \in found : \A j \in found : i <= j
             IN  [intent |-> detect_choice_intent(last_choices[first].text, window_open),
                  choice_text |-> last_choices[first].text]

(***************************************************************************)
(* fulfillment.py : parse_anchor_adjustments, event_parsing.py             *)
(***************************************************************************)
parse_anchor_adjustments(response) ==
    IF response.anchors = <<>> THEN Adjustments(0, 0, 0) ELSE response.anchors[1]

parse_character_name(response) == response.character_name

parse_key_npcs(response) == response.key_npcs

parse_wisdom_moment(response) == response.wisdom

DEFINING_MOMENT_THRESHOLD == 12

\* A scan that lets a later anchor take over on equal magnitude.
check_defining_moment_last_seen(anchor_adjustments) ==
    LET step(acc, anchor) ==
            IF Abs(anchor_adjustments[anchor]) >= Abs(acc.max_delta)
            THEN [max_anchor |-> anchor, max_delta |-> anchor_adjustments[anchor]]
            ELSE acc
        found == step(step(step([max_anchor |-> None, max_delta |-> 0],
                                "belonging"), "legacy"), "freedom")
    IN  IF found.max_anchor # None /\ Abs(found.max_delta) >= DEFINING_MOMENT_THRESHOLD
        THEN <<[anchor |-> found.max_anchor, delta |-> found.max_delta]>>
        ELSE <<>>

\* A sequence of length 0 or 1: the first anchor, in belonging, legacy,
\* freedom order, with the largest absolute requested delta.
check_defining_moment(anchor_adjustments) ==
    LET step(acc, anchor) ==
            IF Abs(anchor_adjustments[anchor]) > Abs(acc.max_delta)
            THEN [max_anchor |-> anchor, max_delta |-> anchor_adjustments[anchor]]
            ELSE acc
        found == step(step(step([max_anchor |-> None, max_delta |-> 0],
                                "belonging"), "legacy"), "freedom")
    IN  IF found.max_anchor # None /\ Abs(found.max_delta) >= DEFINING_MOMENT_THRESHOLD
        THEN <<[anchor |-> found.max_anchor, delta |-> found.max_delta]>>
        ELSE <<>>

(***************************************************************************)
(* game_api.py : GameAPI                                                   *)
(***************************************************************************)
\* The bounds of a Spec run.
MaxSessionTurns == 7    \* story turns
MaxSessionEras == 2     \* entries of era_history
MaxEvents == 4          \* entries of game_events

\* The era catalog of the session's region, by id.
available_eras == {"classical_athens"}

\* The choice ids a client sends.
ChoiceInputs == {"A", "B", "C", "b", "D", "Q", "q"}

Event(type, name, delta) == [type |-> type, args |-> [name |-> name, delta |-> delta]]

\* A message: its type and, for CHOICES, the choices it carries.
Msg(type) == [type |-> type, choices |-> <<>>]

Choices(choices) == [type |-> "choices", choices |-> choices]

Frame(handler, events) == [handler |-> handler, events |-> events]

NoEvents ==
    [window_opened |-> FALSE,
     window_closing |-> FALSE,
     window_closed |-> FALSE,
     window_active_after_turn |-> FALSE]

RECURSIVE log_relationships(_, _)
log_relationships(gs, npcs) ==
    IF npcs = <<>> THEN gs
    ELSE log_relationships(GameState_log_event(gs, Event("relationship", Head(npcs), 0)),
                           Tail(npcs))

\* Returns the state and the feedback dict (milestone: a sequence of length 0
\* or 1; wisdom: a wisdom path id or None).
GameAPI_process_response(gs, era, response, is_arrival) ==
    LET adjustments == parse_anchor_adjustments(response)
        adjust(g, anchor) ==
            IF adjustments[anchor] # 0
            THEN [g EXCEPT !.fulfillment =
                     FulfillmentState_adjust(@, anchor, adjustments[anchor], "choice")]
            ELSE g
        log_defining(g, defining) ==
            IF defining # <<>>
            THEN GameState_log_event(g, Event("defining_moment",
                                              defining[1].anchor, defining[1].delta))
            ELSE g
        milestone(g) ==
            LET crossed == FulfillmentState_check_milestone_crossed(g.fulfillment)
            IN  [state |-> [g EXCEPT !.fulfillment = crossed.f],
                 milestone |-> crossed.milestone]
        character_named(g, char_name) ==
            IF is_arrival /\ char_name # None
            THEN GameState_log_event(
                   IF g.current_era # <<>>
                   THEN [g EXCEPT !.current_era[1].character_name = char_name]
                   ELSE g,
                   Event("character_named", char_name, 0))
            ELSE g
        log_wisdom(g, wisdom_id) ==
            IF wisdom_id # None
            THEN GameState_log_event(g, Event("wisdom", wisdom_id, 0))
            ELSE g
        store_turn(g) ==
            IF g.current_era # <<>>
            THEN [g EXCEPT !.current_era[1].events =
                     Append(@, g.current_era[1].turns_in_era)]
            ELSE g
        rest(checked) ==
            [state |-> store_turn(
                         log_wisdom(
                           log_relationships(
                             character_named(checked.state, parse_character_name(response)),
                             parse_key_npcs(response)),
                           parse_wisdom_moment(response))),
             milestone |-> checked.milestone,
             wisdom |-> IF parse_wisdom_moment(response) # None /\ era # None
                        THEN get_wisdom_path_by_id(era, parse_wisdom_moment(response))
                        ELSE None]
    IN  rest(milestone(log_defining(
                 adjust(adjust(adjust(gs, "belonging"), "legacy"), "freedom"),
                 check_defining_moment(adjustments))))

FeedbackMessages(feedback) ==
    (IF feedback.milestone # <<>> THEN <<Msg("progress_milestone")>> ELSE <<>>)
    \o (IF feedback.wisdom # None THEN <<Msg("historical_wisdom")>> ELSE <<>>)

\* A rejection that reports the error and offers nothing again.
GameAPI_re_emit_choices_nothing(gs) == <<>>

GameAPI_re_emit_choices(gs) == <<Choices(gs.last_choices)>>

\* time_machine.py : select_random_era, the eras it may return.
select_random_era(eras, exclude_ids) ==
    LET eligible == {e \in eras : ~SeqContains(exclude_ids, e)}
    IN  IF eligible = {} THEN eras ELSE eligible

\* _enter_random_era up to the call of the narrator.
GameAPI_enter_random_era_begin(gs, era) ==
    LET g1 == GameState_enter_era(gs, era)
    IN  [g1 EXCEPT !.fulfillment = FulfillmentState_initialize_milestone_tracking(@)]

\* _enter_random_era from the narrator's response on.
GameAPI_enter_random_era_end(gs, era, name) ==
    LET r == GameAPI_process_response(gs, era, RESPONSES[name], TRUE)
        g1 == GameState_log_event(r.state, Event("era_arrival", era, 0))
        filtered_choices ==
            filter_choices(PARSED_CHOICES[name], FALSE, GameState_can_stay_meaningfully(g1))
        g2 == GameState_set_last_turn(g1, name, filtered_choices)
    IN  [state |-> [g2 EXCEPT !.phase = "living"],
         messages |-> <<Msg("era_arrival"), Msg("journey_progress"),
                        Msg("era_summary"), Msg("loading")>>
                      \o FeedbackMessages(r)
                      \o <<Choices(filtered_choices), Msg("device_status")>>]

\* _process_story_turn up to the call of the narrator.  Returns the state and
\* the events dict of the turn.
GameAPI_process_story_turn_begin(gs, roll) ==
    LET r == GameState_advance_turn(gs, roll)
    IN  [state |-> IF r.events.window_opened
                   THEN [r.state EXCEPT !.phase = "window_open"]
                   ELSE r.state,
         events |-> r.events]

\* _process_story_turn from the narrator's response on.
GameAPI_process_story_turn_end(gs, era, events, name) ==
    LET r == GameAPI_process_response(gs, era, RESPONSES[name], FALSE)
        g1 == r.state
        filtered_choices ==
            filter_choices(PARSED_CHOICES[name],
                           events.window_active_after_turn,
                           GameState_can_stay_meaningfully(g1))
        g2 == GameState_set_last_turn(g1, name, filtered_choices)
        closed == ~events.window_opened /\ ~events.window_closing /\ events.window_closed
    IN  [state |-> IF closed THEN [g2 EXCEPT !.phase = "living"] ELSE g2,
         messages |-> <<Msg("loading")>>
                      \o (IF events.window_opened THEN <<Msg("window_open")>> ELSE <<>>)
                      \o FeedbackMessages(r)
                      \o <<Choices(filtered_choices), Msg("journey_progress")>>
                      \o (IF events.window_opened THEN <<>>
                          ELSE IF events.window_closing THEN <<Msg("window_closing")>>
                          ELSE IF events.window_closed THEN <<Msg("window_closed")>>
                          ELSE <<>>)
                      \o <<Msg("device_status")>>]

\* _handle_leaving: the state is written before the narrator is called.
GameAPI_handle_leaving(gs) ==
    [state |-> GameState_choose_to_travel(gs),
     messages |-> <<Msg("departure"), Msg("loading"), Msg("waiting_input")>>]

\* _handle_stay_forever from the narrator's response on: the state is written
\* after the narrator returned.
GameAPI_handle_stay_forever_end(gs) ==
    [state |-> GameState_end_game(GameState_choose_to_stay(gs, TRUE)),
     messages |-> <<Msg("staying_forever"), Msg("loading"), Msg("waiting_input")>>]

\* A score that classifies the ending from the anchors whatever the override.
score_ending_type_ignores_override(gs, ending_type_override) ==
    FulfillmentState_get_ending_type(gs.fulfillment)

\* scoring.py : calculate_score, the ending type of the Score.
score_ending_type(gs, ending_type_override) ==
    IF ending_type_override # None
    THEN ending_type_override
    ELSE FulfillmentState_get_ending_type(gs.fulfillment)

\* The FINAL_SCORE message, with the ending type of its score.
FinalScore(ending_type) ==
    [type |-> "final_score", choices |-> <<>>, ending_type |-> ending_type]

\* _handle_quit: the state is written after the narrator returned.
GameAPI_handle_quit(gs, era, engine) ==
    [state |-> GameState_end_game(gs),
     messages |-> <<Msg("game_end")>>
                  \o (IF era # None /\ engine # None THEN <<Msg("loading")>> ELSE <<>>)
                  \o <<FinalScore(score_ending_type(GameState_end_game(gs), "abandoned"))>>]

(***************************************************************************)
(* Spec: one session driven through the handlers of server.py, in any      *)
(* order.  The server runs every event in a greenlet of its own, and a     *)
(* handler that waits for the narrator's stream yields to the others: a    *)
(* handler that writes the state on both sides of that call is two steps,  *)
(* its frame waiting in pending in between.  _handle_leaving only writes   *)
(* before the call and _handle_quit only after it: each is one step.  The  *)
(* model follows at most one suspended call of each handler: a story turn, *)
(* an era entry and a stay-forever ending may wait for the narrator at the *)
(* same time, and every handler that returns in one step may run meanwhile.*)
(***************************************************************************)
Suspended(handler) == \E i \in DOMAIN pending : pending[i].handler = handler

SuspendedFrame(handler) ==
    pending[CHOOSE i \in DOMAIN pending : pending[i].handler = handler]

Resumed(handler) == SelectSeq(pending, LAMBDA frame : frame.handler # handler)

Init ==
    /\ state = GameState
    /\ narrator = None
    /\ current_era = None
    /\ emitted = <<>>
    /\ pending = <<>>
    /\ op = Op("init", "", "")
    /\ calls_since_reset = 0

\* set_region: start_game and a new narrator, in whatever phase the session is.
SetRegion ==
    /\ state' = GameState_start_game(state)
    /\ narrator' = "NarrativeEngine"
    /\ emitted' = <<Msg("intro_story"), Msg("intro_items"),
                    Msg("intro_device"), Msg("waiting_input")>>
    /\ op' = Op("set_region", "", "returned")
    /\ UNCHANGED <<current_era, pending, calls_since_reset>>

\* enter_first_era and continue_to_next_era both run _enter_random_era.  With
\* no narrator, narrator.set_era raises after the era was entered.
GameAPI_enter_random_era(handler) ==
    \E era \in select_random_era(available_eras, state.time_machine.eras_visited) :
        /\ state' = GameAPI_enter_random_era_begin(state, era)
        /\ Len(state'.era_history) <= MaxSessionEras
        /\ current_era' = era
        /\ IF narrator = None
           THEN /\ emitted' = <<>>
                /\ pending' = pending
                /\ op' = Op(handler, "", "raised")
           ELSE /\ ~Suspended("enter_random_era")
                /\ emitted' = emitted
                /\ pending' = Append(pending, Frame("enter_random_era", NoEvents))
                /\ op' = Op(handler, "", "suspended")
        /\ UNCHANGED <<narrator, calls_since_reset>>

EnterFirstEra == GameAPI_enter_random_era("enter_first_era")

ContinueToNextEra == GameAPI_enter_random_era("continue_to_next_era")

\* The narrator returns to a suspended _enter_random_era.
EraArrivalCompletes ==
    \E name \in ResponseNames :
        /\ Suspended("enter_random_era")
        /\ LET r == GameAPI_enter_random_era_end(state, current_era, name)
           IN  /\ Len(r.state.game_events) <= MaxEvents
               /\ state' = r.state
               /\ emitted' = r.messages
        /\ pending' = Resumed("enter_random_era")
        /\ op' = Op("enter_random_era", name, "returned")
        /\ UNCHANGED <<narrator, current_era, calls_since_reset>>

\* The ways make_choice returns.
Returns(choice, outcome, gs, messages) ==
    /\ state' = gs
    /\ emitted' = messages
    /\ pending' = pending
    /\ op' = Op("make_choice", choice, outcome)

Suspends(choice, outcome, gs, frame) ==
    /\ ~Suspended(frame.handler)
    /\ state' = gs
    /\ emitted' = emitted
    /\ pending' = Append(pending, frame)
    /\ op' = Op("make_choice", choice, outcome)

GameAPI_make_choice(input) ==
    LET choice == char_upper(input)
        window_open == state.time_machine.window_active
        found == get_choice_intent_for_submission(choice, state.last_choices, window_open)
    IN  IF choice = "Q"
        THEN LET r == GameAPI_handle_quit(state, current_era, narrator)
             IN  /\ Len(r.state.era_history) <= MaxSessionEras
                 /\ Returns(choice, "quit", r.state, r.messages)
        ELSE IF choice \notin {"A", "B", "C"}
        THEN Returns(choice, "invalid", state, <<Msg("error")>>)
        ELSE IF found.intent = None
        THEN Returns(choice, "not_found", state, <<Msg("error")>>)
        ELSE IF found.intent = LEAVE_ERA
        THEN LET r == GameAPI_handle_leaving(state)
             IN  IF narrator = None
                 THEN Returns(choice, "raised", r.state, <<>>)
                 ELSE Returns(choice, "leave", r.state, r.messages)
        ELSE IF found.intent = STAY_FOREVER
        THEN IF ~GameState_can_stay_meaningfully(state)
             THEN Returns(choice, "stay_rejected", state,
                          <<Msg("error")>> \o GameAPI_re_emit_choices(state))
             ELSE IF narrator = None
             THEN Returns(choice, "raised", state, <<>>)
             ELSE Suspends(choice, "stay_forever", state,
                           Frame("handle_stay_forever", NoEvents))
        ELSE \E roll \in Rolls :
                LET r == GameAPI_process_story_turn_begin(state, roll)
                IN  /\ state.time_machine.total_turns < MaxSessionTurns
                    /\ IF narrator = None
                       THEN Returns(choice, "raised", r.state, <<>>)
                       ELSE Suspends(choice, "continue", r.state,
                                     Frame("process_story_turn", r.events))

MakeChoice ==
    \E input \in ChoiceInputs :
        /\ GameAPI_make_choice(input)
        /\ UNCHANGED <<narrator, current_era, calls_since_reset>>

\* The narrator returns to a suspended _process_story_turn.
StoryTurnCompletes ==
    \E name \in ResponseNames :
        /\ Suspended("process_story_turn")
        /\ LET r == GameAPI_process_story_turn_end(
                        state, current_era,
                        SuspendedFrame("process_story_turn").events, name)
           IN  /\ Len(r.state.game_events) <= MaxEvents
               /\ state' = r.state
               /\ emitted' = r.messages
        /\ pending' = Resumed("process_story_turn")
        /\ op' = Op("process_story_turn", name, "returned")
        /\ UNCHANGED <<narrator, current_era, calls_since_reset>>

\* The narrator returns to a suspended _handle_stay_forever.
StayForeverCompletes ==
    /\ Suspended("handle_stay_forever")
    /\ LET r == GameAPI_handle_stay_forever_end(state)
       IN  /\ Len(r.state.era_history) <= MaxSessionEras
           /\ state' = r.state
           /\ emitted' = r.messages
    /\ pending' = Resumed("handle_stay_forever")
    /\ op' = Op("handle_stay_forever", "", "returned")
    /\ UNCHANGED <<narrator, current_era, calls_since_reset>>

Next ==
    \/ SetRegion
    \/ EnterFirstEra
    \/ ContinueToNextEra
    \/ EraArrivalCompletes
    \/ MakeChoice
    \/ StoryTurnCompletes
    \/ StayForeverCompletes

Spec == Init /\ [][Next]_vars

(***************************************************************************)
(* Claims about the session, checked under Spec.                           *)
(***************************************************************************)
\* The calls a client makes after the session began: a submission or an
\* era entry (set_region starts the game anew and is not one of them).
Frames(frames) == {frames[i] : i \in DOMAIN frames}

IsCall(o) == o.name \in {"make_choice", "enter_first_era", "continue_to_next_era"}

\* C6: once the phase is Ended the session is immutable: no later submission
\* (A/B/C), quit or era entry changes any field of the session.  Stated of the
\* sessions that ended after choices had been offered.
C6_EndedIsImmutable ==
    [][(state.phase = "ended" /\ state.last_choices # <<>> /\ IsCall(op'))
       => state' = state]_vars

\* C7: a submission whose id is not in the last-offered set (ids outside A-C
\* included) reports an error, changes no field of the session and offers the
\* same choice set again.  Stated of the sessions in which a set was offered.
C7_InvalidChoiceReoffers ==
    [][(/\ op'.name = "make_choice"
        /\ op'.choice # "Q"
        /\ state.last_choices # <<>>
        /\ get_choice_intent_for_submission(
               op'.choice, state.last_choices,
               state.time_machine.window_active).intent = None)
       => /\ state' = state
          /\ SeqContains(emitted', Msg("error"))
          /\ SeqContains(emitted', Choices(state.last_choices))]_vars

\* The submission of a stored choice that reads as stay-forever while no anchor
\* has arrived.
IneligibleStay(gs, choice) ==
    /\ choice \in {"A", "B", "C"}
    /\ get_choice_intent_for_submission(
           choice, gs.last_choices, gs.time_machine.window_active).intent = STAY_FOREVER
    /\ ~GameState_can_stay_meaningfully(gs)

\* C8: a stay-forever submission while no anchor has reached the arrival
\* threshold is rejected even though the choice was offered: an error is
\* reported, the session is unchanged and the current choices are offered again.
C8_IneligibleStayRejected ==
    [][(op'.name = "make_choice" /\ IneligibleStay(state, op'.choice))
       => /\ state' = state
          /\ pending' = pending
          /\ emitted' = <<Msg("error"), Choices(state.last_choices)>>]_vars

\* The rejection happened: the stored set holds a stay-forever choice, no
\* anchor has arrived, and the error and that set were sent.
C8_Witness ==
    /\ op = Op("make_choice", "C", "stay_rejected")
    /\ IneligibleStay(state, "C")
    /\ emitted = <<Msg("error"), Choices(state.last_choices)>>

\* C9: when the text of a Continue turn yields no usable choice, the previous
\* choice set is offered again and stays the last-offered set.
C9_NoChoicesKeepsPrevious ==
    [][(op'.name = "process_story_turn" /\ PARSED_CHOICES[op'.choice] = <<>>)
       => /\ state'.last_choices = state.last_choices
          /\ SeqContains(emitted', Choices(state.last_choices))]_vars

\* C10: the session moves to Traveling, or a stay-forever ending begins, only
\* through a submission made while the window is active; with the window
\* closed every accepted A/B/C submission is a Continue turn: the turn is
\* advanced and the narrator is asked for the next part of the story.
C10_IntentOnlyWhileWindowActive ==
    [][/\ (state'.phase = "traveling" /\ state.phase # "traveling")
          => (op'.name = "make_choice" /\ state.time_machine.window_active)
       /\ (Frame("handle_stay_forever", NoEvents) \in Frames(pending') \ Frames(pending))
          => (op'.name = "make_choice" /\ state.time_machine.window_active)
       /\ (state'.phase = "staying" \/ state'.ending_type # state.ending_type)
          => op'.name = "handle_stay_forever"
       /\ (/\ op'.name = "make_choice"
           /\ op'.choice \in {"A", "B", "C"}
           /\ op'.outcome \notin {"invalid", "not_found"}
           /\ ~state.time_machine.window_active)
          => /\ op'.outcome = "continue"
             /\ state'.time_machine.total_turns = state.time_machine.total_turns + 1
             /\ \E frame \in Frames(pending') \ Frames(pending) :
                    frame.handler = "process_story_turn"]_vars

\* With the window closed before and after the turn, the stored choice B, whose
\* text reads as leaving, was submitted and runs as a Continue turn.
C10_Witness ==
    /\ op = Op("make_choice", "B", "continue")
    /\ pending # <<>>
    /\ pending[Len(pending)].handler = "process_story_turn"
    /\ ~pending[Len(pending)].events.window_active_after_turn
    /\ ~pending[Len(pending)].events.window_closed
    /\ \E i \in DOMAIN state.last_choices :
          /\ state.last_choices[i].id = "B"
          /\ TEXT_INTENT[state.last_choices[i].text] = LEAVE_ERA
    /\ state.phase = "living"

AnchorValues(f) ==
    [a \in {"belonging", "legacy", "freedom"} |-> f[a].value]

\* C22: retention decay is applied only when the era being left is not the
\* session's first.  Entering the first era, and entering the second era from
\* the Traveling phase of the first, leave the three anchor values unchanged;
\* an entry that leaves a later era applies the retention rates once.
C22_NoDecayOutOfFirstEra ==
    [][op'.name \in {"enter_first_era", "continue_to_next_era"}
       => /\ state.current_era = <<>>
               => AnchorValues(state'.fulfillment) = AnchorValues(state.fulfillment)
          /\ (/\ op'.name = "continue_to_next_era"
              /\ state.current_era # <<>>
              /\ state.era_history = <<>>
              /\ state.phase = "traveling"
              /\ state.last_choices # <<>>
              /\ pending = <<>>)
               => AnchorValues(state'.fulfillment) = AnchorValues(state.fulfillment)
          /\ (state.current_era # <<>> /\ state.era_history # <<>>)
               => AnchorValues(state'.fulfillment)
                    = AnchorValues(FulfillmentState_transition_to_new_era(state.fulfillment))]_vars

\* A submission is in flight: its handler waits for the narrator.
SubmissionInFlight ==
    Suspended("process_story_turn") \/ Suspended("handle_stay_forever")

\* C29: at most one submission is in flight per session.  A choice
\* submission (A, B or C) that arrives while an earlier one waits for the
\* narrator is not processed before that one has completed: it changes no
\* field of the session and starts no handler, so no turn is resolved against
\* a stale last-offered set.
C29_OneSubmissionInFlight ==
    [][(/\ op'.name = "make_choice"
        /\ op'.choice \in {"A", "B", "C"}
        /\ SubmissionInFlight)
       => /\ state' = state
          /\ pending' = pending
          /\ op'.outcome \notin {"continue", "leave", "stay_forever"}]_vars

(***************************************************************************)
(* fulfillment.py : strip_anchor_tags; event_parsing.py : strip_event_tags *)
(* A narrative is a sequence of tokens: a whole tag, a letter or a         *)
(* newline.  On such a text a tag pattern matches from an opening tag to   *)
(* a closing one, and [^<] matches every token that is not a tag.          *)
(***************************************************************************)
TagTokens ==
    {"<anchors>", "</anchors>", "<character_name>", "</character_name>",
     "<key_npc>", "</key_npc>", "<wisdom>", "</wisdom>"}

BlankTokens == {" ", "\n"}

\* The position of the first closing tag after the opening tag at 1, or 0.
\* <open>.*?</close> with re.DOTALL: the nearest closing tag, whatever lies
\* between.
nearest_close(text, close) ==
    IF \E j \in 2..Len(text) : text[j] = close
    THEN CHOOSE j \in 2..Len(text) :
            text[j] = close /\ \A k \in 2..(j - 1) : text[k] # close
    ELSE 0

\* <open>\s*[^<]*?\s*</close>: the closing tag must be the first tag after
\* the opening one.
close_without_tag_between(text, close) ==
    IF \E j \in 2..Len(text) : text[j] \in TagTokens
    THEN LET j == CHOOSE j \in 2..Len(text) :
                     text[j] \in TagTokens /\ \A k \in 2..(j - 1) : text[k] \notin TagTokens
         IN  IF text[j] = close THEN j ELSE 0
    ELSE 0

\* re.sub(pattern, '', text): the non-overlapping matches, leftmost first.
RECURSIVE re_sub_tag(_, _, _, _)
re_sub_tag(text, open, close, dotall) ==
    IF text = <<>> THEN <<>>
    ELSE LET end == IF Head(text) # open THEN 0
                    ELSE IF dotall THEN nearest_close(text, close)
                    ELSE close_without_tag_between(text, close)
         IN  IF end # 0
             THEN re_sub_tag(SubSeq(text, end + 1, Len(text)), open, close, dotall)
             ELSE <<Head(text)>> \o re_sub_tag(Tail(text), open, close, dotall)

\* The length of the run of blank tokens the text starts with.
RECURSIVE blank_run(_)
blank_run(text) ==
    IF text = <<>> \/ Head(text) \notin BlankTokens THEN 0 ELSE 1 + blank_run(Tail(text))

\* re.sub(r'\n\s*\n\s*\n', '\n\n', text): a match starts at a newline whose
\* run of blanks holds three newlines or more and, \s* being greedy, ends at
\* the last newline of the run.
RECURSIVE collapse_blank_lines(_)
collapse_blank_lines(text) ==
    IF text = <<>> THEN <<>>
    ELSE LET run == blank_run(text)
             newlines == {j \in 1..run : text[j] = "\n"}
             last == CHOOSE j \in newlines : \A k \in newlines : k <= j
         IN  IF Head(text) = "\n" /\ Cardinality(newlines) >= 3
             THEN <<"\n", "\n">> \o collapse_blank_lines(SubSeq(text, last + 1, Len(text)))
             ELSE <<Head(text)>> \o collapse_blank_lines(Tail(text))

\* str.strip() of a narrative.
RECURSIVE strip_blanks(_)
strip_blanks(text) ==
    IF text = <<>> THEN text
    ELSE IF Head(text) \in BlankTokens THEN strip_blanks(Tail(text))
    ELSE IF text[Len(text)] \in BlankTokens
    THEN strip_blanks(SubSeq(text, 1, Len(text) - 1))
    ELSE text

strip_anchor_tags(response) ==
    strip_blanks(re_sub_tag(response, "<anchors>", "</anchors>", TRUE))

strip_event_tags(response) ==
    strip_blanks(
      collapse_blank_lines(
        re_sub_tag(
          re_sub_tag(
            re_sub_tag(response, "<character_name>", "</character_name>", FALSE),
            "<key_npc>", "</key_npc>", FALSE),
          "<wisdom>", "</wisdom>", FALSE)))

\* game_api.py, the narrative sent to the player.
clean_response(response) == strip_event_tags(strip_anchor_tags(response))

(***************************************************************************)
(* SpecStrip: the narrative cleaning applied, and applied again, to every  *)
(* narrative of at most MaxNarrativeLen tokens.  emitted holds the text,   *)
(* calls_since_reset the number of times it was cleaned.                   *)
(***************************************************************************)
MaxNarrativeLen == 5

MaxCleanings == 2

NarrativeTokens == {"<anchors>", "</anchors>", "<wisdom>", "</wisdom>", "a", "\n"}

InitStrip ==
    /\ state = GameState
    /\ narrator = None
    /\ current_era = None
    /\ \E n \in 0..MaxNarrativeLen : \E text \in [1..n -> NarrativeTokens] :
          emitted = text
    /\ pending = <<>>
    /\ op = Op("init", "", "")
    /\ calls_since_reset = 0

CleanResponse ==
    /\ calls_since_reset < MaxCleanings
    /\ emitted' = clean_response(emitted)
    /\ op' = Op("clean_response", "",
                IF emitted' = emitted THEN "unchanged" ELSE "changed")
    /\ calls_since_reset' = calls_since_reset + 1
    /\ UNCHANGED <<state, narrator, current_era, pending>>

NextStrip ==
    \/ CleanResponse

SpecStrip == InitStrip /\ [][NextStrip]_vars

\* C30: tag stripping is idempotent: cleaning a narrative that was cleaned
\* before (anchor tags removed, then event tags removed and blank lines
\* collapsed) returns it unchanged, nested and repeated tags and runs of blank
\* lines included.
C30_StripIsIdempotent ==
    [][(op'.name = "clean_response" /\ calls_since_reset >= 1)
       => emitted' = emitted]_vars

(***************************************************************************)
(* fulfillment.py : parse_anchor_adjustments, on the text of a response.   *)
(* The text is a sequence of tokens: the anchors tags, the anchor names,   *)
(* brackets, signs, digits, blanks and other characters.                   *)
(***************************************************************************)
Digits == {"0", "1", "2", "5"}

Signs == {"+", "-"}

DIGIT_VALUE == ("0" :> 0) @@ ("1" :> 1) @@ ("2" :> 2) @@ ("5" :> 5)

TOKEN_LOWER ==
    ("<ANCHORS>" :> "<anchors>") @@ ("</ANCHORS>" :> "</anchors>") @@
    ("BELONGING" :> "belonging") @@ ("Legacy" :> "legacy") @@ ("FREEDOM" :> "freedom")

\* The token at position j as re.IGNORECASE reads it; "" past the end.
token_at(text, j) ==
    IF j \notin 1..Len(text) THEN ""
    ELSE IF text[j] \in DOMAIN TOKEN_LOWER THEN TOKEN_LOWER[text[j]]
    ELSE text[j]

\* \s* and \d+ are greedy: the position after the run that starts at j.
RECURSIVE run_end(_, _, _)
run_end(text, j, class) ==
    IF token_at(text, j) \in class THEN run_end(text, j + 1, class) ELSE j

\* int() of a decimal numeral, a sequence of digits.
RECURSIVE int_digits(_)
int_digits(digits) ==
    IF digits = <<>> THEN 0
    ELSE 10 * int_digits(SubSeq(digits, 1, Len(digits) - 1)) + DIGIT_VALUE[digits[Len(digits)]]

\* int() of a group ([+\-]?\d+).
int(group) ==
    IF Head(group) = "-" THEN 0 - int_digits(Tail(group))
    ELSE IF Head(group) = "+" THEN int_digits(Tail(group))
    ELSE int_digits(group)

\* name\[([+\-]?\d+)\] at position j: the position after the match and the
\* group, or end 0 when there is no match.
match_field(text, j, name) ==
    LET digits_from == IF token_at(text, j + 2) \in Signs THEN j + 3 ELSE j + 2
        digits_to == run_end(text, digits_from, Digits)
    IN  IF /\ j # 0
           /\ token_at(text, j) = name
           /\ token_at(text, j + 1) = "["
           /\ digits_to > digits_from
           /\ token_at(text, digits_to) = "]"
        THEN [end |-> digits_to + 1, group |-> SubSeq(text, j + 2, digits_to - 1)]
        ELSE [end |-> 0, group |-> <<>>]

\* The whole pattern at position i: a sequence of length 0 or 1 holding the
\* three groups.
match_anchors_at(text, i) ==
    LET belonging == match_field(text, run_end(text, i + 1, BlankTokens), "belonging")
        legacy == IF belonging.end = 0 THEN belonging
                  ELSE match_field(text, run_end(text, belonging.end, BlankTokens), "legacy")
        freedom == IF legacy.end = 0 THEN legacy
                   ELSE match_field(text, run_end(text, legacy.end, BlankTokens), "freedom")
    IN  IF /\ token_at(text, i) = "<anchors>"
           /\ freedom.end # 0
           /\ token_at(text, run_end(text, freedom.end, BlankTokens)) = "</anchors>"
        THEN <<[belonging |-> belonging.group, legacy |-> legacy.group,
                freedom |-> freedom.group]>>
        ELSE <<>>

\* A search that takes every field it can read, wherever it stands.
re_search_anchors_by_field(text) ==
    LET found(name) ==
            {j \in 1..Len(text) : match_field(text, j, name).end # 0}
        delta(name) ==
            IF found(name) = {} THEN 0
            ELSE int(match_field(text, CHOOSE j \in found(name) : TRUE, name).group)
    IN  IF found("belonging") \cup found("legacy") \cup found("freedom") = {} THEN <<>>
        ELSE <<Adjustments(delta("belonging"), delta("legacy"), delta("freedom"))>>

\* re.search of the anchors pattern and the int() of its groups: a sequence
\* of length 0 (no match) or 1 (the three deltas of the leftmost match).
re_search_anchors(text) ==
    LET found == {i \in 1..Len(text) : match_anchors_at(text, i) # <<>>}
        groups == match_anchors_at(text, CHOOSE i \in found : \A k \in found : i <= k)[1]
    IN  IF found = {} THEN <<>>
        ELSE <<Adjustments(int(groups.belonging), int(groups.legacy), int(groups.freedom))>>

\* The response whose text is text and that carries no event tag and no
\* choice line.
Response(text) ==
    [anchors |-> re_search_anchors(text),
     character_name |-> None,
     key_npcs |-> <<>>,
     wisdom |-> None,
     lines |-> <<>>]

(***************************************************************************)
(* SpecParse: _process_response on the texts a narrator may return, in a   *)
(* session that has arrived in its first era.                              *)
(***************************************************************************)
MaxParses == 2

GoodNumbers ==
    {<<"+", "1", "5">>, <<"-", "1", "5">>, <<"1", "2">>, <<"+", "1", "1">>, <<"0">>}

BadNumbers == {<<>>, <<"1", ".", "5">>, <<"+", "-", "5">>}

Field(name, number) == <<name, "[">> \o number \o <<"]">>

\* The tag as the prompt asks for it, and the same in capitals over lines.
Compact(b, l, f) ==
    <<"a", "<anchors>">> \o Field("belonging", b) \o <<" ">> \o Field("legacy", l)
        \o <<" ">> \o Field("freedom", f) \o <<"</anchors>">>

Spread(b, l, f) ==
    <<"<ANCHORS>", "\n">> \o Field("BELONGING", b) \o <<"\n", " ">> \o Field("Legacy", l)
        \o Field("FREEDOM", f) \o <<" ", "</ANCHORS>", "a">>

\* Texts whose tag is garbled as a whole: not closed, not opened, fields out
\* of order, fields separated by commas, a word inside the tag.
Garbled(b, l, f) ==
    {<<"a", "<anchors>">> \o Field("belonging", b) \o <<" ">> \o Field("legacy", l)
         \o <<" ">> \o Field("freedom", f),
     Field("belonging", b) \o <<" ">> \o Field("legacy", l)
         \o <<" ">> \o Field("freedom", f) \o <<"</anchors>">>,
     <<"<anchors>">> \o Field("legacy", l) \o <<" ">> \o Field("belonging", b)
         \o <<" ">> \o Field("freedom", f) \o <<"</anchors>">>,
     <<"<anchors>">> \o Field("belonging", b) \o <<",">> \o Field("legacy", l)
         \o <<",">> \o Field("freedom", f) \o <<"</anchors>">>,
     <<"<anchors>", "a">> \o Field("belonging", b) \o <<" ">> \o Field("legacy", l)
         \o <<" ">> \o Field("freedom", f) \o <<"</anchors>">>}

WellFormedTexts ==
    {Compact(b, l, f) : b \in GoodNumbers, l \in GoodNumbers, f \in GoodNumbers}
    \cup {Spread(b, l, f) : b \in {<<"+", "1", "5">>, <<"0">>},
                            l \in {<<"-", "1", "5">>, <<"0">>},
                            f \in {<<"1", "2">>, <<"0">>}}

Numbers == GoodNumbers \cup BadNumbers

MalformedTexts ==
    {<<>>, <<"a">>}
    \cup ({Compact(b, l, f) : b \in Numbers, l \in Numbers, f \in Numbers} \ WellFormedTexts)
    \cup UNION {Garbled(b, l, <<"-", "1", "5">>) :
                  b \in {<<"+", "1", "5">>, <<"0">>}, l \in {<<"+", "1", "1">>, <<"0">>}}

ResponseTexts == WellFormedTexts \cup MalformedTexts

InitParse ==
    /\ state = GameAPI_enter_random_era_end(
                   GameAPI_enter_random_era_begin(GameState_start_game(GameState),
                                                  "classical_athens"),
                   "classical_athens", "").state
    /\ narrator = "NarrativeEngine"
    /\ current_era = "classical_athens"
    /\ emitted = <<>>
    /\ pending = <<>>
    /\ op = Op("init", "", "")
    /\ calls_since_reset = 0

ProcessResponse ==
    \E text \in ResponseTexts :
        /\ calls_since_reset < MaxParses
        /\ LET r == GameAPI_process_response(state, current_era, Response(text), FALSE)
           IN  /\ state' = r.state
               /\ emitted' = FeedbackMessages(r)
        /\ op' = Op("process_response", text,
                    IF re_search_anchors(text) = <<>> THEN "no_match" ELSE "match")
        /\ calls_since_reset' = calls_since_reset + 1
        /\ UNCHANGED <<narrator, current_era, pending>>

NextParse ==
    \/ ProcessResponse

SpecParse == InitParse /\ [][NextParse]_vars

DefiningMoments(gs) == SelectSeq(gs.game_events, LAMBDA e : e.type = "defining_moment")

\* C31: a response whose text has no well-formed anchors tag (none at all, or
\* one with a malformed field or garbled as a whole) is processed with all
\* three deltas 0: no anchor's value or history changes and no defining
\* moment is logged.
C31_MalformedTagChangesNothing ==
    [][(op'.name = "process_response" /\ op'.choice \notin WellFormedTexts)
       => /\ op'.outcome = "no_match"
          /\ \A anchor \in {"belonging", "legacy", "freedom"} :
                state'.fulfillment[anchor] = state.fulfillment[anchor]
          /\ DefiningMoments(state') = DefiningMoments(state)]_vars

\* A tag that asks for +15 belonging and has a malformed legacy field was
\* processed after a well-formed one had raised belonging to 15.
C31_Witness ==
    /\ op.name = "process_response"
    /\ op.choice = Compact(<<"+", "1", "5">>, <<"+", "-", "5">>, <<"0">>)
    /\ op.outcome = "no_match"
    /\ calls_since_reset = 2
    /\ state.fulfillment.belonging.value = 15
    /\ Len(state.fulfillment.belonging.history) = 1
    /\ Len(DefiningMoments(state)) = 1

\* C38: a defining moment is logged for a response only when some anchor's
\* value changed by at least 12 while it was processed, and the logged delta
\* is the change applied to that anchor, after clamping to 0..100.
C38_DefiningMomentIsAppliedChange ==
    [][(op'.name = "process_response"
        /\ DefiningMoments(state') # DefiningMoments(state))
       => LET logged == DefiningMoments(state')[Len(DefiningMoments(state'))].args
              applied == state'.fulfillment[logged.name].value
                           - state.fulfillment[logged.name].value
          IN  /\ Abs(applied) >= DEFINING_MOMENT_THRESHOLD
              /\ logged.delta = applied]_vars

(***************************************************************************)
(* SpecDefining: check_defining_moment on every triple of deltas of        *)
(* magnitude at most MaxDelta.  op holds the triple, then the result.      *)
(***************************************************************************)
MaxDelta == 14

InitDefining ==
    /\ state = GameState
    /\ narrator = None
    /\ current_era = None
    /\ emitted = <<>>
    /\ pending = <<>>
    /\ \E b \in (0 - MaxDelta)..MaxDelta, l \in (0 - MaxDelta)..MaxDelta,
          f \in (0 - MaxDelta)..MaxDelta :
          op = Op("adjustments", Adjustments(b, l, f), <<>>)
    /\ calls_since_reset = 0

CheckDefiningMoment ==
    /\ op.name = "adjustments"
    /\ op' = Op("check_defining_moment", op.choice, check_defining_moment(op.choice))
    /\ UNCHANGED <<state, narrator, current_era, emitted, pending, calls_since_reset>>

NextDefining ==
    \/ CheckDefiningMoment

SpecDefining == InitDefining /\ [][NextDefining]_vars

LargestMagnitude(deltas) ==
    Max(Abs(deltas.belonging), Max(Abs(deltas.legacy), Abs(deltas.freedom)))

\* The first anchor of the scan whose delta has the largest magnitude.
FirstLargest(deltas) ==
    IF Abs(deltas.belonging) = LargestMagnitude(deltas) THEN "belonging"
    ELSE IF Abs(deltas.legacy) = LargestMagnitude(deltas) THEN "legacy"
    ELSE "freedom"

EraState_to_dict(e) ==
    [era_id |-> e.era_id,
     turns_in_era |-> e.turns_in_era,
     character_name |-> e.character_name,
     events |-> e.events]

EraState_from_dict(data) ==
    [EraState(data.era_id) EXCEPT !.turns_in_era = data.turns_in_era,
                                  !.character_name = data.character_name,
                                  !.events = data.events]

GameState_to_save_dict(gs) ==
    [version |-> "1.1",
     phase |-> gs.phase,
     ending_type |-> gs.ending_type,
     final_era |-> gs.final_era,
     current_era |-> IF gs.current_era # <<>>
                     THEN <<EraState_to_dict(gs.current_era[1])>>
                     ELSE <<>>,
     era_history |-> gs.era_history,
     time_machine |->
         [turns_since_last_window |-> gs.time_machine.turns_since_last_window,
          window_active |-> gs.time_machine.window_active,
          window_turns_remaining |-> gs.time_machine.window_turns_remaining,
          eras_visited |-> gs.time_machine.eras_visited,
          total_turns |-> gs.time_machine.total_turns,
          accumulated_probability |-> gs.time_machine.accumulated_probability],
     fulfillment |->
         [belonging |-> [value |-> gs.fulfillment.belonging.value,
                         history |-> gs.fulfillment.belonging.history],
          legacy |-> [value |-> gs.fulfillment.legacy.value,
                      history |-> gs.fulfillment.legacy.history],
          freedom |-> [value |-> gs.fulfillment.freedom.value,
                       history |-> gs.fulfillment.freedom.history],
          current_turn |-> gs.fulfillment.current_turn],
     last_narrative |-> gs.last_narrative,
     last_choices |-> gs.last_choices,
     game_events |-> gs.game_events]

\* A restore that reads a record without the session resume data.
GameState_from_save_dict_without_choices(data) ==
    [GameState EXCEPT
       !.phase = data.phase,
       !.ending_type = data.ending_type,
       !.final_era = data.final_era,
       !.current_era = IF data.current_era # <<>>
                       THEN <<EraState_from_dict(data.current_era[1])>>
                       ELSE <<>>,
       !.era_history = data.era_history,
       !.time_machine =
           [TimeMachine EXCEPT
              !.turns_since_last_window = data.time_machine.turns_since_last_window,
              !.window_active = data.time_machine.window_active,
              !.window_turns_remaining = data.time_machine.window_turns_remaining,
              !.eras_visited = data.time_machine.eras_visited,
              !.total_turns = data.time_machine.total_turns,
              !.accumulated_probability = data.time_machine.accumulated_probability],
       !.fulfillment =
           [FulfillmentState EXCEPT
              !.belonging = [value |-> data.fulfillment.belonging.value,
                             history |-> data.fulfillment.belonging.history],
              !.legacy = [value |-> data.fulfillment.legacy.value,
                          history |-> data.fulfillment.legacy.history],
              !.freedom = [value |-> data.fulfillment.freedom.value,
                           history |-> data.fulfillment.freedom.history],
              !.current_turn = data.fulfillment.current_turn],
       !.game_events = data.game_events]

\* state = cls(): the fields the record does not hold keep their defaults,
\* the last-known levels of the milestone tracking among them.
GameState_from_save_dict(data) ==
    [GameState EXCEPT
       !.phase = data.phase,
       !.ending_type = data.ending_type,
       !.final_era = data.final_era,
       !.current_era = IF data.current_era # <<>>
                       THEN <<EraState_from_dict(data.current_era[1])>>
                       ELSE <<>>,
       !.era_history = data.era_history,
       !.time_machine =
           [TimeMachine EXCEPT
              !.turns_since_last_window = data.time_machine.turns_since_last_window,
              !.window_active = data.time_machine.window_active,
              !.window_turns_remaining = data.time_machine.window_turns_remaining,
              !.eras_visited = data.time_machine.eras_visited,
              !.total_turns = data.time_machine.total_turns,
              !.accumulated_probability = data.time_machine.accumulated_probability],
       !.fulfillment =
           [FulfillmentState EXCEPT
              !.belonging = [value |-> data.fulfillment.belonging.value,
                             history |-> data.fulfillment.belonging.history],
              !.legacy = [value |-> data.fulfillment.legacy.value,
                          history |-> data.fulfillment.legacy.history],
              !.freedom = [value |-> data.fulfillment.freedom.value,
                           history |-> data.fulfillment.freedom.history],
              !.current_turn = data.fulfillment.current_turn],
       !.last_narrative = data.last_narrative,
       !.last_choices = data.last_choices,
       !.game_events = data.game_events]

\* resume_game: the state and the messages.
GameAPI_resume_game(gs) ==
    IF gs.phase = "ended"
    THEN [state |-> gs, messages |-> <<Msg("error")>>]
    ELSE LET filtered_choices ==
                 filter_choices(gs.last_choices, gs.time_machine.window_active,
                                GameState_can_stay_meaningfully(gs))
         IN  [state |-> IF gs.last_choices # <<>>
                        THEN [gs EXCEPT !.last_choices = filtered_choices]
                        ELSE gs,
              messages |-> <<Msg("game_resumed")>>
                           \o (IF gs.last_narrative # "" THEN <<Msg("narrative")>> ELSE <<>>)
                           \o (IF gs.last_choices # <<>>
                               THEN <<Choices(filtered_choices)>> ELSE <<>>)
                           \o <<Msg("device_status")>>]

(***************************************************************************)
(* SpecResume: the session of Spec, saved, loaded and resumed in whatever  *)
(* state it is while no handler waits for the narrator.  calls_since_reset *)
(* counts the resumes; the model follows the session up to its first one.  *)
(***************************************************************************)
MaxResumes == 1

\* save_game, load_game of the record just written, and resume_game.
SaveLoadResume ==
    /\ calls_since_reset < MaxResumes
    /\ pending = <<>>
    /\ LET loaded_state == GameState_from_save_dict(GameState_to_save_dict(state))
           r == GameAPI_resume_game(loaded_state)
       IN  /\ state' = r.state
           /\ emitted' = r.messages
           /\ current_era' = IF loaded_state.current_era # <<>>
                             THEN loaded_state.current_era[1].era_id
                             ELSE current_era
    /\ narrator' = "NarrativeEngine"
    /\ op' = Op("resume_game", "", "returned")
    /\ calls_since_reset' = calls_since_reset + 1
    /\ UNCHANGED pending

NextResume ==
    \/ calls_since_reset = 0 /\ SetRegion
    \/ calls_since_reset = 0 /\ EnterFirstEra
    \/ calls_since_reset = 0 /\ ContinueToNextEra
    \/ calls_since_reset = 0 /\ EraArrivalCompletes
    \/ calls_since_reset = 0 /\ MakeChoice
    \/ calls_since_reset = 0 /\ StoryTurnCompletes
    \/ calls_since_reset = 0 /\ StayForeverCompletes
    \/ SaveLoadResume

SpecResume == Init /\ [][NextResume]_vars

\* The fields of the engine state that a resumed session is to keep.
EngineState(gs) ==
    [phase |-> gs.phase,
     current_era |-> gs.current_era,
     era_history |-> gs.era_history,
     turns_since_last_window |-> gs.time_machine.turns_since_last_window,
     window_active |-> gs.time_machine.window_active,
     window_turns_remaining |-> gs.time_machine.window_turns_remaining,
     anchors |-> [a \in {"belonging", "legacy", "freedom"} |->
                    [value |-> gs.fulfillment[a].value,
                     history |-> gs.fulfillment[a].history]],
     total_turns |-> gs.time_machine.total_turns,
     current_turn |-> gs.fulfillment.current_turn,
     game_events |-> gs.game_events,
     last_choices |-> gs.last_choices]

Resolution(gs) ==
    [id \in ChoiceInputs |->
        get_choice_intent_for_submission(id, gs.last_choices, gs.time_machine.window_active)]

\* C28: restoring a session from its own saved record is lossless for the
\* engine state: the resumed session has the same phase, current era, era
\* history, window fields, anchor values and histories, turn counters, event
\* log and last-offered choice set, and every choice id resolves as it did
\* before the save.
C28_ResumeIsLossless ==
    [][op'.name = "resume_game"
       => /\ EngineState(state') = EngineState(state)
          /\ Resolution(state') = Resolution(state)]_vars

\* C28 witness: a session resumed with the window open, a stay-forever choice
\* on offer and an anchor arrived.
C28_Witness ==
    /\ op.name = "resume_game"
    /\ pending = <<>>
    /\ state.time_machine.window_active
    /\ state.phase = "window_open"
    /\ GameState_can_stay_meaningfully(state)
    /\ \E i \in DOMAIN state.last_choices :
          TEXT_INTENT[state.last_choices[i].text] = STAY_FOREVER
    /\ SeqContains(emitted, Choices(state.last_choices))

(***************************************************************************)
(* SpecSequential: one session driven sequentially.  The client sends its  *)
(* next event only once the handler of the previous one has returned, so   *)
(* a handler starts only while no handler waits for the narrator.          *)
(***************************************************************************)
NextSequential ==
    \/ pending = <<>> /\ SetRegion
    \/ pending = <<>> /\ EnterFirstEra
    \/ pending = <<>> /\ ContinueToNextEra
    \/ EraArrivalCompletes
    \/ pending = <<>> /\ MakeChoice
    \/ StoryTurnCompletes
    \/ StayForeverCompletes
    \/ SaveLoadResume

SpecSequential == Init /\ [][NextSequential]_vars

StayForeverOffered(gs) ==
    \E i \in DOMAIN gs.last_choices :
        detect_choice_intent(gs.last_choices[i].text, TRUE) = STAY_FOREVER

\* C34: in a session driven sequentially, whenever no handler is running, the
\* window is active and no anchor has reached the arrival threshold, no choice
\* of the last-offered set reads as stay-forever; and no submission ever takes
\* make_choice's "not enough to stay" rejection.
C34_NoIneligibleStayOffered ==
    /\ []((/\ pending = <<>>
           /\ state.time_machine.window_active
           /\ ~GameState_can_stay_meaningfully(state))
          => ~StayForeverOffered(state))
    /\ [][op'.name = "make_choice" => op'.outcome # "stay_rejected"]_vars

\* A turn was played with the window active and no anchor arrived; the
\* narrator offered, among others, a stay-forever choice, and the stored set
\* does not hold it.
C34_Witness ==
    /\ op = Op("process_story_turn", "story", "returned")
    /\ pending = <<>>
    /\ state.time_machine.window_active
    /\ ~GameState_can_stay_meaningfully(state)
    /\ \E i \in DOMAIN PARSED_CHOICES["story"] :
          detect_choice_intent(PARSED_CHOICES["story"][i].text, TRUE) = STAY_FOREVER
    /\ state.last_choices # <<>>
    /\ ~StayForeverOffered(state)

\* C35: once the session has an era, continue_to_next_era takes effect only
\* in phase Traveling, that is after an accepted Leave; in any other phase it
\* is rejected and leaves the current era, the anchors, the window and the era
\* history as they are.
C35_NewEraOnlyFromTraveling ==
    [][(/\ op'.name = "continue_to_next_era"
        /\ state.current_era # <<>>
        /\ state.phase # "traveling")
       => /\ current_era' = current_era
          /\ state'.current_era = state.current_era
          /\ state'.fulfillment = state.fulfillment
          /\ state'.time_machine = state.time_machine
          /\ state'.era_history = state.era_history]_vars

\* C36: the phase and the window machine agree in every reachable state: in
\* phase WindowOpen the window is active, and in phase Setup, Arrival or
\* Living it is not.
C36_PhaseAgreesWithWindow ==
    /\ state.phase = "window_open" => state.time_machine.window_active
    /\ state.phase \in {"setup", "arrival", "living"} => ~state.time_machine.window_active

\* C37: milestone tracking survives save and restore: on the session restored
\* from its record, check_milestone_crossed returns what it returns on the
\* session that was saved, a milestone only if a level rose since the last
\* check before the save.
C37_MilestoneTrackingSurvivesRestore ==
    [][op'.name = "resume_game"
       => FulfillmentState_check_milestone_crossed(state'.fulfillment).milestone
            = FulfillmentState_check_milestone_crossed(state.fulfillment).milestone]_vars

(***************************************************************************)
(* SpecArrival: the era entries of one session, one after the other: the   *)
(* handlers enter_first_era and continue_to_next_era and the return of the *)
(* narrator to each.  No turn is played in between, so the event log is    *)
(* bounded by MaxArrivalEvents, four events for each arrival.              *)
(***************************************************************************)
MaxArrivalEvents == 12

ArrivalCompletes ==
    \E name \in ResponseNames :
        /\ Suspended("enter_random_era")
        /\ LET r == GameAPI_enter_random_era_end(state, current_era, name)
           IN  /\ Len(r.state.game_events) <= MaxArrivalEvents
               /\ state' = r.state
               /\ emitted' = r.messages
        /\ pending' = Resumed("enter_random_era")
        /\ op' = Op("enter_random_era", name, "returned")
        /\ UNCHANGED <<narrator, current_era, calls_since_reset>>

NextArrival ==
    \/ SetRegion
    \/ EnterFirstEra
    \/ ContinueToNextEra
    \/ ArrivalCompletes

SpecArrival == Init /\ [][NextArrival]_vars

\* C27: a drop of level caused by the decay of an era transition is never
\* reported as a milestone, and the first check after the transition compares
\* against the levels after the decay.  The levels recorded for the check are
\* the current ones in every state; the entry that decays the anchors sends
\* nothing; and the arrival reports a milestone exactly when its own deltas
\* raised an anchor above the level it had after the decay.
C27_NoMilestoneAcrossTransition ==
    /\ [](\A a \in {"belonging", "legacy", "freedom"} :
            LastLevels(state.fulfillment)[a] = Anchor_level(state.fulfillment[a]))
    /\ [][/\ op'.name \in {"enter_first_era", "continue_to_next_era"}
              => emitted' \in {emitted, <<>>}
          /\ (op'.name = "enter_random_era" /\ op'.outcome = "returned")
              => (SeqContains(emitted', Msg("progress_milestone"))
                    <=> \E a \in {"belonging", "legacy", "freedom"} :
                           Rung(Anchor_level(state'.fulfillment[a]))
                             > Rung(Anchor_level(state.fulfillment[a])))]_vars

\* C27 witness: the second arrival, after a decay that took Belonging from 75
\* (strong) to 15 (none), brought no deltas and reported no milestone.
C27_Witness ==
    /\ op = Op("enter_random_era", "story", "returned")
    /\ Len(state.era_history) = 1
    /\ state.era_history[1].fulfillment_snapshot.belonging = 75
    /\ state.fulfillment.belonging.value = 15
    /\ ~SeqContains(emitted, Msg("progress_milestone"))

(***************************************************************************)
(* SpecIntent: the three functions of choice_intent.py, each applied to    *)
(* inputs drawn from the choice sets the parser can store.  state holds    *)
(* the stored set (set_last_turn on a fresh GameState); emitted holds the  *)
(* record of the last call: its arguments and its result.                  *)
(***************************************************************************)
\* The longest choice set _parse_choices returns is MAX_CHOICES long.
ChoiceIds == {"A", "B", "C"}

StoredChoices == [id : ChoiceIds, text : ChoiceTexts]

OfferedSets ==
    UNION {[1..n -> StoredChoices] : n \in 0..MAX_CHOICES}

\* The ids a client submits to a stored set.
SubmittedIds == {"A", "B", "C", "b", "D"}

\* The texts detect_choice_intent is called with.
IntentTexts == ChoiceTexts \cup {<<>>}

Call(name, text, choice_id, window_open, can_stay, intent, choices) ==
    [call |-> name,
     text |-> text,
     choice_id |-> choice_id,
     window_open |-> window_open,
     can_stay |-> can_stay,
     intent |-> intent,
     choices |-> choices]

InitIntent ==
    /\ \E choices \in OfferedSets : state = GameState_set_last_turn(GameState, "", choices)
    /\ narrator = None
    /\ current_era = None
    /\ emitted = <<>>
    /\ pending = <<>>
    /\ op = Op("init", "", "")
    /\ calls_since_reset = 0

DetectChoiceIntent ==
    \E text \in IntentTexts, window_open \in BOOLEAN :
        /\ emitted' = <<Call("detect_choice_intent", text, "", window_open, FALSE,
                             detect_choice_intent(text, window_open), <<>>)>>
        /\ op' = Op("detect_choice_intent", "", "returned")
        /\ UNCHANGED <<state, narrator, current_era, pending, calls_since_reset>>

FilterChoices ==
    \E window_open \in BOOLEAN, can_stay \in BOOLEAN :
        /\ emitted' = <<Call("filter_choices", <<>>, "", window_open, can_stay, None,
                             filter_choices(state.last_choices, window_open, can_stay))>>
        /\ op' = Op("filter_choices", "", "returned")
        /\ UNCHANGED <<state, narrator, current_era, pending, calls_since_reset>>

GetChoiceIntentForSubmission ==
    \E choice_id \in SubmittedIds, window_open \in BOOLEAN :
        LET r == get_choice_intent_for_submission(choice_id, state.last_choices, window_open)
        IN  /\ emitted' = <<Call("get_choice_intent_for_submission", r.choice_text,
                                 choice_id, window_open, FALSE, r.intent, <<>>)>>
            /\ op' = Op("get_choice_intent_for_submission", choice_id,
                        IF r.intent = None THEN "not_found" ELSE "found")
            /\ UNCHANGED <<state, narrator, current_era, pending, calls_since_reset>>

NextIntent ==
    \/ DetectChoiceIntent
    \/ FilterChoices
    \/ GetChoiceIntentForSubmission

SpecIntent == InitIntent /\ [][NextIntent]_vars

(***************************************************************************)
(* SpecChoices: _parse_choices on every response of at most MaxLines       *)
(* lines, and the storing of its result as the arrival does it on a fresh  *)
(* session.  op holds the lines, then the ids of the stored set.           *)
(***************************************************************************)
MaxLines == 4

LineLabels == {"A", "a", "C", "D"}

LineTexts == {TEXT_PRESS_FORWARD, TEXT_STAY, TEXT_SHORT}

ResponseLines ==
    UNION {[1..n -> [label : LineLabels, text : LineTexts]] : n \in 0..MaxLines}

InitChoices ==
    /\ state = GameState
    /\ narrator = None
    /\ current_era = None
    /\ emitted = <<>>
    /\ pending = <<>>
    /\ \E lines \in ResponseLines : op = Op("response", lines, <<>>)
    /\ calls_since_reset = 0

ParseChoices ==
    /\ op.name = "response"
    /\ LET response == [anchors |-> <<>>, character_name |-> None, key_npcs |-> <<>>,
                        wisdom |-> None, lines |-> op.choice]
           filtered_choices ==
               filter_choices(GameAPI_parse_choices(response), FALSE,
                              GameState_can_stay_meaningfully(state))
       IN  /\ state' = GameState_set_last_turn(state, "", filtered_choices)
           /\ emitted' = <<Choices(filtered_choices)>>
           /\ op' = Op("parse_choices", op.choice,
                       [i \in DOMAIN filtered_choices |-> filtered_choices[i].id])
    /\ UNCHANGED <<narrator, current_era, pending, calls_since_reset>>

NextChoices ==
    \/ ParseChoices

SpecChoices == InitChoices /\ [][NextChoices]_vars

\* C39: every stored choice set has at most 3 entries, with ids among A, B
\* and C and pairwise distinct, so that submitting the id of an offered choice
\* selects that choice.
C39_StoredIdsDistinct ==
    op.name = "parse_choices"
    => /\ Len(state.last_choices) <= 3
       /\ \A i \in DOMAIN state.last_choices :
             /\ state.last_choices[i].id \in {"A", "B", "C"}
             /\ \A j \in DOMAIN state.last_choices :
                   state.last_choices[i].id = state.last_choices[j].id => i = j
             /\ get_choice_intent_for_submission(
                    state.last_choices[i].id, state.last_choices, FALSE).choice_text
                  = state.last_choices[i].text

(***************************************************************************)
(* The reference classification.  A pattern is run over the text from left *)
(* to right, keeping the set of positions a match can have reached: a      *)
(* character moves each position over that character, ANY and WS move a    *)
(* position over any characters and over whitespace.                       *)
(***************************************************************************)
reference_step(token, text, reached) ==
    IF token = "ANY"
    THEN {q \in 0..Len(text) : \E p \in reached : p <= q}
    ELSE IF token = "WS"
    THEN {q \in 0..Len(text) :
            \E p \in reached : p <= q /\ \A n \in (p + 1)..q : text[n] \in Whitespace}
    ELSE {p + 1 : p \in {r \in reached : r < Len(text) /\ text[r + 1] = token}}

RECURSIVE reference_run(_, _, _, _)
reference_run(pattern, i, text, reached) ==
    IF i > Len(pattern) THEN reached
    ELSE reference_run(pattern, i + 1, text, reference_step(pattern[i], text, reached))

ReferenceMatches(patterns, text) ==
    \E n \in DOMAIN patterns :
        reference_run(patterns[n], 1, lower(text), 0..Len(text)) # {}

REFERENCE_INTENT ==
    [text \in IntentTexts |->
        IF ReferenceMatches(LEAVE_PATTERNS, text) THEN LEAVE_ERA
        ELSE IF ReferenceMatches(STAY_FOREVER_PATTERNS, text) THEN STAY_FOREVER
        ELSE CONTINUE_STORY]

ReferenceIntent(text, window_open) ==
    IF ~window_open THEN CONTINUE_STORY ELSE REFERENCE_INTENT[text]

\* C11: detect_choice_intent equals the reference classification for every
\* text and window flag: Continue with the window closed; otherwise Leave if a
\* leave pattern matches (a stay-forever pattern may match too), otherwise
\* StayForever if a stay-forever pattern matches, otherwise Continue.
C11_DetectIntentIsReference ==
    \A i \in DOMAIN emitted :
        emitted[i].call = "detect_choice_intent"
        => emitted[i].intent = ReferenceIntent(emitted[i].text, emitted[i].window_open)

\* With the window open, a text that matches a leave and a stay-forever
\* pattern was classified: the result is Leave.
C11_Witness ==
    /\ emitted # <<>>
    /\ emitted[1].call = "detect_choice_intent"
    /\ emitted[1].window_open
    /\ ReferenceMatches(LEAVE_PATTERNS, emitted[1].text)
    /\ ReferenceMatches(STAY_FOREVER_PATTERNS, emitted[1].text)
    /\ emitted[1].intent = LEAVE_ERA

\* The choices in their order, without those the reference classifies as
\* StayForever.
RECURSIVE ReferenceWithoutStay(_)
ReferenceWithoutStay(choices) ==
    IF choices = <<>> THEN <<>>
    ELSE IF ReferenceIntent(Head(choices).text, TRUE) = STAY_FOREVER
         THEN ReferenceWithoutStay(Tail(choices))
         ELSE <<Head(choices)>> \o ReferenceWithoutStay(Tail(choices))

\* C12: filter_choices returns its input unchanged when the window is closed
\* or the player may stay; with the window open and the player ineligible it
\* returns the input in the same order minus exactly the StayForever choices.
C12_FilterChoices ==
    \A i \in DOMAIN emitted :
        emitted[i].call = "filter_choices"
        => emitted[i].choices =
               IF ~emitted[i].window_open \/ emitted[i].can_stay
               THEN state.last_choices
               ELSE ReferenceWithoutStay(state.last_choices)

\* An ineligible player's open-window set of three, whose middle choice reads
\* as staying forever, was filtered: the other two remain, in their order.
C12_Witness ==
    /\ emitted # <<>>
    /\ emitted[1].call = "filter_choices"
    /\ emitted[1].window_open
    /\ ~emitted[1].can_stay
    /\ Len(state.last_choices) = 3
    /\ ReferenceIntent(state.last_choices[1].text, TRUE) = LEAVE_ERA
    /\ ReferenceIntent(state.last_choices[2].text, TRUE) = STAY_FOREVER
    /\ ReferenceIntent(state.last_choices[3].text, TRUE) = CONTINUE_STORY
    /\ emitted[1].choices = <<state.last_choices[1], state.last_choices[3]>>

\* C13: a submission is resolved by looking its id up in the stored choice set,
\* and the intent depends only on that choice's text and the window flag: the
\* same text offered under any letter resolves to the same intent.
C13_IntentFollowsText ==
    \A i \in DOMAIN emitted :
        emitted[i].call = "get_choice_intent_for_submission"
        => LET stored == state.last_choices
               matching == {k \in DOMAIN stored :
                               char_upper(stored[k].id) = char_upper(emitted[i].choice_id)}
           IN  IF matching = {}
               THEN emitted[i].intent = None
               ELSE /\ \E k \in matching :
                          /\ \A j \in matching : k <= j
                          /\ emitted[i].text = stored[k].text
                    /\ emitted[i].intent =
                           ReferenceIntent(emitted[i].text, emitted[i].window_open)
                    /\ \A letter \in ChoiceIds :
                          get_choice_intent_for_submission(
                              letter,
                              <<[id |-> letter, text |-> emitted[i].text]>>,
                              emitted[i].window_open).intent = emitted[i].intent

\* With the window open, id A was submitted to a set that stores A second,
\* after a choice that reads as leaving: it resolved to A's own text, StayForever.
C13_Witness ==
    /\ emitted # <<>>
    /\ emitted[1].call = "get_choice_intent_for_submission"
    /\ emitted[1].window_open
    /\ emitted[1].choice_id = "A"
    /\ Len(state.last_choices) >= 2
    /\ state.last_choices[1].id = "C"
    /\ ReferenceIntent(state.last_choices[1].text, TRUE) = LEAVE_ERA
    /\ state.last_choices[2].id = "A"
    /\ emitted[1].text = state.last_choices[2].text
    /\ emitted[1].intent = STAY_FOREVER

(***************************************************************************)
(* Claims about the endings of a session, checked under Spec.              *)
(***************************************************************************)
ArrivedAnchors(f) ==
    {a \in {"belonging", "legacy", "freedom"} : f[a].value >= ARRIVAL_THRESHOLD}

\* The ending classification by the count of arrived anchors.
ReferenceEnding(f) ==
    IF Cardinality(ArrivedAnchors(f)) = 3 THEN "complete"
    ELSE IF Cardinality(ArrivedAnchors(f)) = 2 THEN "balanced"
    ELSE IF Cardinality(ArrivedAnchors(f)) = 1 THEN CHOOSE a \in ArrivedAnchors(f) : TRUE
    ELSE "searching"

\* C14: a stay-forever submission made with the window active and an anchor
\* arrived ends the session in that operation: the phase becomes Ended, the
\* ending type is the one the count of arrived anchors gives, and it is never
\* 'searching'.
C14_StayEndsBySatisfaction ==
    [][op'.name = "handle_stay_forever"
       => /\ state'.phase = "ended"
          /\ state'.ending_type = ReferenceEnding(state.fulfillment)
          /\ state'.ending_type # "searching"]_vars

\* The classifications a stay ending can produce.
StayEndings == {"complete", "balanced", "belonging", "legacy", "freedom", "searching"}

\* C15: a quit submission (not made mid-transition, see C16) moves the session
\* to Ended within the same operation, and the ending is classified
\* 'abandoned', which no stay ending produces.
C15_QuitEndsAbandoned ==
    [][(op'.name = "make_choice" /\ op'.choice = "Q" /\ state.phase # "traveling")
       => /\ state'.phase = "ended"
          /\ emitted' # <<>>
          /\ emitted'[Len(emitted')] = FinalScore("abandoned")
          /\ "abandoned" \notin StayEndings]_vars

\* A player who could have stayed (an anchor has arrived, so a stay would be
\* classified by the anchors) quit in an era: the session has ended and the
\* score says 'abandoned'.
C15_Witness ==
    /\ op = Op("make_choice", "Q", "quit")
    /\ state.phase = "ended"
    /\ state.current_era # <<>>
    /\ ReferenceEnding(state.fulfillment) = "belonging"
    /\ emitted = <<Msg("game_end"), Msg("loading"), FinalScore("abandoned")>>

\* C16: a quit submitted while the phase is Traveling is rejected and leaves
\* the session unchanged.  Stated of the quits made while no handler waits
\* for the narrator.
C16_NoQuitWhileTraveling ==
    [][(/\ state.phase = "traveling"
        /\ pending = <<>>
        /\ op'.name = "make_choice"
        /\ op'.choice = "Q")
       => /\ state' = state
          /\ SeqContains(emitted', Msg("error"))]_vars

====
